---- MODULE Spec2Model ----
(***************************************************************************)
(* LatchPay: the escrow payment state machine (EscrowVault), the endpoint  *)
(* registry it reads (EndpointRegistry), the ERC-20 token it moves, the    *)
(* three stores deployed next to it (SellerBondVault, ReceiptStore and     *)
(* ReputationEngine) and the PaymentRouter that calls it for its users.    *)
(* Every external function is one action; a call that reverts leaves the   *)
(* ledger unchanged, so an action is enabled exactly when the function's   *)
(* checks, in the order the code makes them, all pass.  The *Err operators *)
(* give the error a call would revert with ("ok" when it would not).       *)
(* The listing's createdAt/updatedAt stamps, which no contract reads, and  *)
(* the emitted events are left out.  Amounts, prices, windows and times    *)
(* stay far below 2^256, so their arithmetic is unbounded.  The one word   *)
(* an input sets without any range check is deliveryDeadline: the sums it  *)
(* enters are checked (Solidity 0.8) and revert with Panic when they pass  *)
(* MaxUint256.  Spec draws deadlines from DeadlineInputs, LiveSpec adds    *)
(* the deadlines in ExtremeDeadlines.                                      *)
(***************************************************************************)
EXTENDS Integers, Sequences, FiniteSets, TLC

\* ---------------------------------------------------------------- bounds
MaxPayments == 1
MaxEndpoints == 1
StartTime == 1000
InitialMint == 300
BondMint == 201
MaxActivePayments == 1
MaxSlashRecords == 2
MaxLockPeriods == 2
MaxTicks == 2
MaxRecords == 2
\* The largest uint256: 2^256 - 1 in the contracts, 2^30 at the width the
\* model's integers have room for.
MaxUint256 == 1073741824
MaxBatch == 2

\* ------------------------------------------------------ program constants
MAX_PROTOCOL_FEE_BPS == 500
BPS_DENOMINATOR == 10000
DefaultDeliveryDeadline == 86400
MinDisputeWindow == 3600
MaxDisputeWindow == 2592000
MIN_LOCK_PERIOD == 604800
MAX_SLASH_BPS == 5000
MAX_VOLUME_FOR_BONUS == 1000000000
MAX_LEADERBOARD == 50
MAX_SPLIT_RECIPIENTS == 5
MAX_BATCH_SIZE == 10

\* ------------------------------------------------------------- principals
ZeroAddress == "0x0"
Owner == "owner"
Escrow == "escrowVault"
OtherEscrow == "otherVault"
Treasury == "treasury"
BondVault == "bondVault"
Router == "paymentRouter"
UnknownSigner == "0xrecovered"
Users == {"owner", "seller", "buyer", "carol"}
Sellers == {"seller"}
Buyers == {"buyer"}
Signers == {"seller", "carol"}
Holders == Users \cup {Escrow, Treasury, BondVault, Router}

\* ----------------------------------------------------------- input sets
ZeroHash == "0x00"
Hashes == {ZeroHash, "0xd1"}
DeliveryHashes == {"0xd1"}
MetaHashes == {"0xe1"}
EvidenceHashes == {"0xe5"}
NoteHashes == {"0xb1"}
URIs == {"", "ipfs://a"}
Categories == {"AI"}
Bonds == {0}
Prices == {0, 1, 130}
Windows == {MinDisputeWindow - 1, MinDisputeWindow, 2 * MinDisputeWindow,
            MaxDisputeWindow + 1}
FeeInputs == {0, MAX_PROTOCOL_FEE_BPS, MAX_PROTOCOL_FEE_BPS + 1}
DeadlineInputs == {MinDisputeWindow, DefaultDeliveryDeadline}
ExtremeDeadlines == {MaxUint256}
ApproveAmounts == {InitialMint}
FeeRecipients == {ZeroAddress, Treasury}
VaultInputs == {ZeroAddress, Escrow}

BondCallers == Users \cup {OtherEscrow}
BondDepositors == {"seller"}
BondVaultInputs == {ZeroAddress, Escrow, OtherEscrow}
DepositAmounts == {0, 100, 101}
WithdrawAmounts == {0, 100, BondMint + 1}
SlashBpsInputs == {0, MAX_SLASH_BPS, MAX_SLASH_BPS + 1, 6000}
SlashReasons == {"late"}

StoreCallers == Users \cup {OtherEscrow}
StoreVaultInputs == {ZeroAddress, Escrow, OtherEscrow}
ReceiptAmounts == {0, 130}

ScoreCallers == Users \cup {OtherEscrow}
ScoreVaultInputs == {ZeroAddress, Escrow, OtherEscrow}
ScoredSellers == {"seller", "carol"}
ScoredBuyers == {"buyer"}

\* One listing, one bond deposit and one receipt next to the whole payment
\* lifecycle: the inputs of SystemSpec.
SystemURIs == {"ipfs://a"}
SystemPrices == {130}
SystemWindows == {MinDisputeWindow}
SystemDeposits == {100}
SystemStoreVaults == {OtherEscrow}

EndpointIdSpace == 0 .. MaxEndpoints
PaymentIdSpace == 0 .. MaxPayments

VARIABLES
    now,              \* block.timestamp
    endpoints,        \* EndpointRegistry.endpoints
    endpointIds,      \* EndpointRegistry.endpointIds
    sellerEndpoints,  \* EndpointRegistry.sellerEndpoints
    endpointCounter,  \* EndpointRegistry._endpointCounter
    registryEscrow,   \* EndpointRegistry.escrowVault
    payments,         \* EscrowVault.payments
    paymentIds,       \* EscrowVault.paymentIds
    buyerPayments,    \* EscrowVault.buyerPayments
    sellerPayments,   \* EscrowVault.sellerPayments
    paymentCounter,   \* EscrowVault._paymentCounter
    protocolFeeBps,   \* EscrowVault.protocolFeeBps
    feeRecipient,     \* EscrowVault.feeRecipient
    accumulatedFees,  \* EscrowVault.accumulatedFees
    deliveryDeadline, \* EscrowVault.deliveryDeadline
    balanceOf,        \* the token's balances
    allowance,        \* the token's allowances towards the EscrowVault, the Router's included
    bondAllowance,    \* the token's allowances towards the SellerBondVault
    bonds,            \* SellerBondVault.bonds
    slashRecords,     \* SellerBondVault.slashRecords
    bondEscrow,       \* SellerBondVault.escrowVault
    receipts,         \* ReceiptStore.receipts
    receiptIds,       \* ReceiptStore.receiptIds
    receiptEscrow,    \* ReceiptStore.escrowVault
    sellerScores,     \* ReputationEngine.sellerScores
    buyerScores,      \* ReputationEngine.buyerScores
    topSellers,       \* ReputationEngine.topSellers
    reputationEscrow, \* ReputationEngine.escrowVault
    routerAllowance,  \* the token's allowances towards the PaymentRouter
    revenueSplits,    \* PaymentRouter.revenueSplits
    splitBalances     \* PaymentRouter.splitBalances

registryVars == <<endpoints, endpointIds, sellerEndpoints, endpointCounter, registryEscrow>>
paymentVars == <<payments, paymentIds, buyerPayments, sellerPayments, paymentCounter>>
adminVars == <<protocolFeeBps, feeRecipient, deliveryDeadline>>
tokenVars == <<balanceOf, allowance>>
bondVars == <<bondAllowance, bonds, slashRecords, bondEscrow>>
receiptVars == <<receipts, receiptIds, receiptEscrow>>
reputationVars == <<sellerScores, buyerScores, topSellers, reputationEscrow>>
routerVars == <<routerAllowance, revenueSplits, splitBalances>>
peripheryVars == <<bondVars, receiptVars, reputationVars, routerVars>>
escrowVars == <<registryVars, paymentVars, adminVars, accumulatedFees, allowance>>
vars == <<now, registryVars, paymentVars, adminVars, accumulatedFees, tokenVars, peripheryVars>>

\* ------------------------------------------------------------- records
NoEndpoint ==
    [seller |-> ZeroAddress, metadataURI |-> "", pricePerCall |-> 0,
     category |-> "", disputeWindowSeconds |-> 0, requiredBond |-> 0,
     active |-> FALSE, totalCalls |-> 0]

NoPayment ==
    [paymentId |-> 0, endpointId |-> 0, buyer |-> ZeroAddress,
     seller |-> ZeroAddress, amount |-> 0, openedAt |-> 0, deliveredAt |-> 0,
     disputeWindowEnds |-> 0, status |-> "Pending", buyerNoteHash |-> ZeroHash,
     deliveryHash |-> ZeroHash, responseMetaHash |-> ZeroHash,
     evidenceHash |-> ZeroHash]

NoBond == [amount |-> 0, lockedUntil |-> 0, activePayments |-> 0, totalSlashed |-> 0]

NoReceipt ==
    [paymentId |-> 0, endpointId |-> 0, buyer |-> ZeroAddress, seller |-> ZeroAddress,
     deliveryHash |-> ZeroHash, responseMetaHash |-> ZeroHash, timestamp |-> 0,
     amount |-> 0]

NoSplit == [recipients |-> <<>>, sharesBps |-> <<>>, active |-> FALSE]

NoSellerScore ==
    [totalDeliveries |-> 0, successfulDeliveries |-> 0, totalDisputes |-> 0,
     disputesLost |-> 0, totalRefunds |-> 0, totalVolumeUSD6 |-> 0,
     lastActivityAt |-> 0, registeredAt |-> 0]

NoBuyerScore ==
    [totalPayments |-> 0, totalDisputes |-> 0, disputesWon |-> 0,
     totalSpentUSD6 |-> 0, lastActivityAt |-> 0, registeredAt |-> 0]

\* ---------------------------------------------------------------- token
Transfer(bal, from, to, amount) ==
    [a \in Holders |->
        IF from = to THEN bal[a]
        ELSE IF a = from THEN bal[a] - amount
        ELSE IF a = to THEN bal[a] + amount
        ELSE bal[a]]

Approve(owner, amount) ==
    /\ allowance' = [allowance EXCEPT ![owner] = amount]
    /\ UNCHANGED <<peripheryVars, now, registryVars, paymentVars, adminVars, accumulatedFees, balanceOf>>

\* ------------------------------------------------------------- registry
RegisterEndpointErr(metadataURI, pricePerCall, disputeWindowSeconds) ==
    IF metadataURI = "" THEN "EmptyMetadataURI"
    ELSE IF pricePerCall = 0 THEN "InvalidPrice"
    ELSE IF disputeWindowSeconds < MinDisputeWindow
            \/ disputeWindowSeconds > MaxDisputeWindow THEN "InvalidDisputeWindow"
    ELSE "ok"

RegisterEndpoint(caller, metadataURI, pricePerCall, category, disputeWindowSeconds, requiredBond) ==
    /\ endpointCounter < MaxEndpoints
    /\ RegisterEndpointErr(metadataURI, pricePerCall, disputeWindowSeconds) = "ok"
    /\ LET endpointId == endpointCounter + 1 IN
        /\ endpoints' = [endpoints EXCEPT ![endpointId] =
              [seller |-> caller, metadataURI |-> metadataURI,
               pricePerCall |-> pricePerCall, category |-> category,
               disputeWindowSeconds |-> disputeWindowSeconds,
               requiredBond |-> requiredBond, active |-> TRUE,
               totalCalls |-> 0]]
        /\ endpointIds' = Append(endpointIds, endpointId)
        /\ sellerEndpoints' = [sellerEndpoints EXCEPT ![caller] = Append(@, endpointId)]
    /\ endpointCounter' = endpointCounter + 1
    /\ UNCHANGED <<peripheryVars, now, registryEscrow, paymentVars, adminVars, accumulatedFees, tokenVars>>

UpdateEndpointErr(caller, endpointId, metadataURI, pricePerCall, disputeWindowSeconds) ==
    IF endpoints[endpointId].seller = ZeroAddress THEN "EndpointNotFound"
    ELSE IF endpoints[endpointId].seller # caller THEN "NotEndpointOwner"
    ELSE IF metadataURI = "" THEN "EmptyMetadataURI"
    ELSE IF pricePerCall = 0 THEN "InvalidPrice"
    ELSE IF disputeWindowSeconds < MinDisputeWindow
            \/ disputeWindowSeconds > MaxDisputeWindow THEN "InvalidDisputeWindow"
    ELSE "ok"

UpdateEndpoint(caller, endpointId, metadataURI, pricePerCall, disputeWindowSeconds) ==
    /\ UpdateEndpointErr(caller, endpointId, metadataURI, pricePerCall, disputeWindowSeconds) = "ok"
    /\ endpoints' = [endpoints EXCEPT
          ![endpointId].metadataURI = metadataURI,
          ![endpointId].pricePerCall = pricePerCall,
          ![endpointId].disputeWindowSeconds = disputeWindowSeconds]
    /\ UNCHANGED <<peripheryVars, now, endpointIds, sellerEndpoints, endpointCounter, registryEscrow,
                   paymentVars, adminVars, accumulatedFees, tokenVars>>

DeactivateEndpointErr(caller, endpointId) ==
    IF endpoints[endpointId].seller = ZeroAddress THEN "EndpointNotFound"
    ELSE IF endpoints[endpointId].seller # caller THEN "NotEndpointOwner"
    ELSE IF ~endpoints[endpointId].active THEN "EndpointNotActive"
    ELSE "ok"

DeactivateEndpoint(caller, endpointId) ==
    /\ DeactivateEndpointErr(caller, endpointId) = "ok"
    /\ endpoints' = [endpoints EXCEPT ![endpointId].active = FALSE]
    /\ UNCHANGED <<peripheryVars, now, endpointIds, sellerEndpoints, endpointCounter, registryEscrow,
                   paymentVars, adminVars, accumulatedFees, tokenVars>>

ReactivateEndpointErr(caller, endpointId) ==
    IF endpoints[endpointId].seller = ZeroAddress THEN "EndpointNotFound"
    ELSE IF endpoints[endpointId].seller # caller THEN "NotEndpointOwner"
    ELSE IF endpoints[endpointId].active THEN "EndpointAlreadyActive"
    ELSE "ok"

ReactivateEndpoint(caller, endpointId) ==
    /\ ReactivateEndpointErr(caller, endpointId) = "ok"
    /\ endpoints' = [endpoints EXCEPT ![endpointId].active = TRUE]
    /\ UNCHANGED <<peripheryVars, now, endpointIds, sellerEndpoints, endpointCounter, registryEscrow,
                   paymentVars, adminVars, accumulatedFees, tokenVars>>

\* Mutant: incrementCalls open to any caller.
IncrementCallsErrAnyCaller(caller, endpointId) ==
    IF endpoints[endpointId].seller = ZeroAddress THEN "EndpointNotFound"
    ELSE "ok"

IncrementCallsErr(caller, endpointId) ==
    IF caller # registryEscrow THEN "NotAuthorized"
    ELSE IF endpoints[endpointId].seller = ZeroAddress THEN "EndpointNotFound"
    ELSE "ok"

RegistrySetEscrowVaultErr(caller, escrowVault) ==
    IF caller # Owner THEN "OwnableUnauthorizedAccount"
    ELSE IF escrowVault = ZeroAddress THEN "ZeroAddress"
    ELSE "ok"

RegistrySetEscrowVault(caller, escrowVault) ==
    /\ RegistrySetEscrowVaultErr(caller, escrowVault) = "ok"
    /\ registryEscrow' = escrowVault
    /\ UNCHANGED <<peripheryVars, now, endpoints, endpointIds, sellerEndpoints, endpointCounter,
                   paymentVars, adminVars, accumulatedFees, tokenVars>>

IsValidEndpoint(endpointId) ==
    endpoints[endpointId].seller # ZeroAddress /\ endpoints[endpointId].active

GetEndpoint(endpointId) == endpoints[endpointId]

\* ------------------------------------------------ EIP-712 delivery proof
\* The digest _hashTypedDataV4 builds: the struct hash under the domain
\* separator, which binds the verifying contract.
\* Mutant: a digest that leaves the domain separator out.
DeliveryDigestNoDomain(verifyingContract, paymentId, deliveryHash, responseMetaHash, timestamp) ==
    [verifyingContract |-> ZeroAddress, paymentId |-> paymentId,
     deliveryHash |-> deliveryHash, responseMetaHash |-> responseMetaHash,
     timestamp |-> timestamp]

DeliveryDigest(verifyingContract, paymentId, deliveryHash, responseMetaHash, timestamp) ==
    [verifyingContract |-> verifyingContract, paymentId |-> paymentId,
     deliveryHash |-> deliveryHash, responseMetaHash |-> responseMetaHash,
     timestamp |-> timestamp]

\* A well-formed signature is what a signer produced over some digest; the
\* malformed one is a byte string ECDSA.recover rejects.
MalformedSig == [signer |-> ZeroAddress, digest |-> "none"]
Sign(signer, digest) == [signer |-> signer, digest |-> digest]

\* Mutant: the signer accepted whatever digest was signed.
RecoverAnyDigest(digest, sig) == sig.signer

\* ECDSA.recover: the signer when the digest is the signed one, otherwise
\* an address nobody holds the key of.
Recover(digest, sig) ==
    IF sig.digest = digest THEN sig.signer ELSE UnknownSigner

\* The signatures a caller may present for a call at the current time.
SigInputs ==
    {MalformedSig} \cup
    UNION { { Sign(s, DeliveryDigest(c, p, dh, mh, t)) :
                s \in Signers, c \in {Escrow, OtherEscrow},
                dh \in Hashes, mh \in MetaHashes, t \in {now, payments[p].openedAt} } :
            p \in 1 .. MaxPayments }

\* ------------------------------------------------------------ EscrowVault
\* Checked addition: a + b does not fit a uint256.
Overflows(a, b) == a > MaxUint256 - b

InFlight(p) == payments[p].buyer # ZeroAddress
                /\ payments[p].status \in {"Pending", "Delivered", "Disputed"}

\* Mutant: the fee rounded up instead of down.
FeeRoundedUp(amount) ==
    (amount * protocolFeeBps + BPS_DENOMINATOR - 1) \div BPS_DENOMINATOR

Fee(amount) == (amount * protocolFeeBps) \div BPS_DENOMINATOR

\* Mutant: the buyer charged the ceiling instead of the price.
OpenAmountMaxPrice(endpoint, maxPrice) == maxPrice

\* The amount a payment locks: the listing's price when it is opened.
OpenAmount(endpoint, maxPrice) == endpoint.pricePerCall

\* Mutant: the window still counted from the delivery deadline.
DeliveredWindowEndsLate(endpoint) == now + endpoint.disputeWindowSeconds + deliveryDeadline

\* The dispute window anchored at delivery.
DeliveredWindowEnds(endpoint) == now + endpoint.disputeWindowSeconds

\* Mutant: openPayment without the slippage guard.
OpenPaymentErrNoSlippage(caller, endpointId, maxPrice) ==
    IF ~IsValidEndpoint(endpointId) THEN "InvalidEndpoint"
    ELSE IF ~GetEndpoint(endpointId).active THEN "EndpointNotActive"
    ELSE IF allowance[caller] < GetEndpoint(endpointId).pricePerCall THEN "InsufficientAllowance"
    ELSE IF Overflows(now + GetEndpoint(endpointId).disputeWindowSeconds, deliveryDeadline)
         THEN "Panic"
    ELSE IF balanceOf[caller] < GetEndpoint(endpointId).pricePerCall THEN "ERC20InsufficientBalance"
    ELSE "ok"

OpenPaymentErr(caller, endpointId, maxPrice) ==
    IF ~IsValidEndpoint(endpointId) THEN "InvalidEndpoint"
    ELSE IF ~GetEndpoint(endpointId).active THEN "EndpointNotActive"
    ELSE IF GetEndpoint(endpointId).pricePerCall > maxPrice THEN "InvalidAmount"
    ELSE IF allowance[caller] < GetEndpoint(endpointId).pricePerCall THEN "InsufficientAllowance"
    ELSE IF Overflows(now + GetEndpoint(endpointId).disputeWindowSeconds, deliveryDeadline)
         THEN "Panic"
    ELSE IF balanceOf[caller] < GetEndpoint(endpointId).pricePerCall THEN "ERC20InsufficientBalance"
    ELSE "ok"

OpenPayment(caller, endpointId, maxPrice, buyerNoteHash) ==
    /\ paymentCounter < MaxPayments
    /\ OpenPaymentErr(caller, endpointId, maxPrice) = "ok"
    /\ LET endpoint == GetEndpoint(endpointId)
           amount == OpenAmount(endpoint, maxPrice)
           paymentId == paymentCounter + 1
       IN
        /\ payments' = [payments EXCEPT ![paymentId] =
              [paymentId |-> paymentId, endpointId |-> endpointId,
               buyer |-> caller, seller |-> endpoint.seller, amount |-> amount,
               openedAt |-> now, deliveredAt |-> 0,
               disputeWindowEnds |-> now + endpoint.disputeWindowSeconds + deliveryDeadline,
               status |-> "Pending", buyerNoteHash |-> buyerNoteHash,
               deliveryHash |-> ZeroHash, responseMetaHash |-> ZeroHash,
               evidenceHash |-> ZeroHash]]
        /\ paymentIds' = Append(paymentIds, paymentId)
        /\ buyerPayments' = [buyerPayments EXCEPT ![caller] = Append(@, paymentId)]
        /\ sellerPayments' = [sellerPayments EXCEPT ![endpoint.seller] = Append(@, paymentId)]
        /\ balanceOf' = Transfer(balanceOf, caller, Escrow, amount)
        /\ allowance' = [allowance EXCEPT ![caller] = @ - amount]
    /\ paymentCounter' = paymentCounter + 1
    /\ UNCHANGED <<peripheryVars, now, registryVars, adminVars, accumulatedFees>>

\* Mutant: delivery refused on a deactivated listing.
MarkDeliveredErrActiveOnly(paymentId, deliveryHash, responseMetaHash, sellerSig) ==
    LET payment == payments[paymentId] IN
    IF payment.buyer = ZeroAddress THEN "PaymentNotFound"
    ELSE IF payment.status # "Pending" THEN "InvalidStatus"
    ELSE IF Overflows(payment.openedAt, deliveryDeadline) THEN "Panic"
    ELSE IF now > payment.openedAt + deliveryDeadline THEN "DeliveryDeadlinePassed"
    ELSE IF sellerSig = MalformedSig THEN "ECDSAInvalidSignature"
    ELSE IF Recover(DeliveryDigest(Escrow, paymentId, deliveryHash, responseMetaHash, now),
                    sellerSig) # payment.seller THEN "InvalidSignature"
    ELSE IF ~IsValidEndpoint(payment.endpointId) THEN "InvalidEndpoint"
    ELSE IncrementCallsErr(Escrow, payment.endpointId)

\* Mutant: a rejection by Registry.incrementCalls is swallowed.
MarkDeliveredErrSwallowed(paymentId, deliveryHash, responseMetaHash, sellerSig) ==
    LET payment == payments[paymentId] IN
    IF payment.buyer = ZeroAddress THEN "PaymentNotFound"
    ELSE IF payment.status # "Pending" THEN "InvalidStatus"
    ELSE IF Overflows(payment.openedAt, deliveryDeadline) THEN "Panic"
    ELSE IF now > payment.openedAt + deliveryDeadline THEN "DeliveryDeadlinePassed"
    ELSE IF sellerSig = MalformedSig THEN "ECDSAInvalidSignature"
    ELSE IF Recover(DeliveryDigest(Escrow, paymentId, deliveryHash, responseMetaHash, now),
                    sellerSig) # payment.seller THEN "InvalidSignature"
    ELSE "ok"

MarkDeliveredErr(paymentId, deliveryHash, responseMetaHash, sellerSig) ==
    LET payment == payments[paymentId] IN
    IF payment.buyer = ZeroAddress THEN "PaymentNotFound"
    ELSE IF payment.status # "Pending" THEN "InvalidStatus"
    ELSE IF Overflows(payment.openedAt, deliveryDeadline) THEN "Panic"
    ELSE IF now > payment.openedAt + deliveryDeadline THEN "DeliveryDeadlinePassed"
    ELSE IF sellerSig = MalformedSig THEN "ECDSAInvalidSignature"
    ELSE IF Recover(DeliveryDigest(Escrow, paymentId, deliveryHash, responseMetaHash, now),
                    sellerSig) # payment.seller THEN "InvalidSignature"
    ELSE IncrementCallsErr(Escrow, payment.endpointId)

MarkDeliveredWithSellerSig(caller, paymentId, deliveryHash, responseMetaHash, sellerSig) ==
    /\ MarkDeliveredErr(paymentId, deliveryHash, responseMetaHash, sellerSig) = "ok"
    /\ LET endpointId == payments[paymentId].endpointId
           endpoint == GetEndpoint(endpointId)
       IN
        /\ payments' = [payments EXCEPT
              ![paymentId].status = "Delivered",
              ![paymentId].deliveredAt = now,
              ![paymentId].deliveryHash = deliveryHash,
              ![paymentId].responseMetaHash = responseMetaHash,
              ![paymentId].disputeWindowEnds = DeliveredWindowEnds(endpoint)]
        /\ endpoints' = [endpoints EXCEPT ![endpointId].totalCalls = @ + 1]
    /\ UNCHANGED <<peripheryVars, now, endpointIds, sellerEndpoints, endpointCounter, registryEscrow,
                   paymentIds, buyerPayments, sellerPayments, paymentCounter,
                   adminVars, accumulatedFees, tokenVars>>

\* Mutant: dispute open to any caller.
DisputeErrAnyCaller(caller, paymentId) ==
    LET payment == payments[paymentId] IN
    IF payment.buyer = ZeroAddress THEN "PaymentNotFound"
    ELSE IF payment.status # "Delivered" THEN "InvalidStatus"
    ELSE IF now > payment.disputeWindowEnds THEN "DisputeWindowExpired"
    ELSE "ok"

DisputeErr(caller, paymentId) ==
    LET payment == payments[paymentId] IN
    IF payment.buyer = ZeroAddress THEN "PaymentNotFound"
    ELSE IF caller # payment.buyer THEN "NotBuyer"
    ELSE IF payment.status # "Delivered" THEN "InvalidStatus"
    ELSE IF now > payment.disputeWindowEnds THEN "DisputeWindowExpired"
    ELSE "ok"

Dispute(caller, paymentId, evidenceHash) ==
    /\ DisputeErr(caller, paymentId) = "ok"
    /\ payments' = [payments EXCEPT ![paymentId].status = "Disputed",
                                    ![paymentId].evidenceHash = evidenceHash]
    /\ UNCHANGED <<peripheryVars, now, registryVars, paymentIds, buyerPayments, sellerPayments,
                   paymentCounter, adminVars, accumulatedFees, tokenVars>>

\* Mutant: release without waiting for the dispute window to end.
ReleaseErrNoWindow(paymentId) ==
    LET payment == payments[paymentId] IN
    IF payment.buyer = ZeroAddress THEN "PaymentNotFound"
    ELSE IF payment.status # "Delivered" THEN "InvalidStatus"
    ELSE "ok"

\* Mutant: release without the status check.
ReleaseErrAnyStatus(paymentId) ==
    LET payment == payments[paymentId] IN
    IF payment.buyer = ZeroAddress THEN "PaymentNotFound"
    ELSE IF now < payment.disputeWindowEnds THEN "DisputeWindowActive"
    ELSE "ok"

ReleaseErr(paymentId) ==
    LET payment == payments[paymentId] IN
    IF payment.buyer = ZeroAddress THEN "PaymentNotFound"
    ELSE IF payment.status # "Delivered" THEN "InvalidStatus"
    ELSE IF now < payment.disputeWindowEnds THEN "DisputeWindowActive"
    ELSE "ok"

\* The fee-deducted payout release and resolveDispute(false) both make.
PayoutToSeller(paymentId) ==
    LET payment == payments[paymentId]
        fee == Fee(payment.amount)
        sellerAmount == payment.amount - fee
    IN
    /\ payments' = [payments EXCEPT ![paymentId].status = "Released"]
    /\ accumulatedFees' = accumulatedFees + fee
    /\ balanceOf' = Transfer(balanceOf, Escrow, payment.seller, sellerAmount)

\* The full refund refund and resolveDispute(true) both make.
RefundToBuyer(paymentId) ==
    LET payment == payments[paymentId] IN
    /\ payments' = [payments EXCEPT ![paymentId].status = "Refunded"]
    /\ balanceOf' = Transfer(balanceOf, Escrow, payment.buyer, payment.amount)
    /\ UNCHANGED accumulatedFees

Release(caller, paymentId) ==
    /\ ReleaseErr(paymentId) = "ok"
    /\ PayoutToSeller(paymentId)
    /\ UNCHANGED <<peripheryVars, now, registryVars, paymentIds, buyerPayments, sellerPayments,
                   paymentCounter, adminVars, allowance>>

\* Mutant: refund already at the deadline itself.
RefundErrAtDeadline(paymentId) ==
    LET payment == payments[paymentId] IN
    IF payment.buyer = ZeroAddress THEN "PaymentNotFound"
    ELSE IF payment.status # "Pending" THEN "InvalidStatus"
    ELSE IF now < payment.openedAt + deliveryDeadline THEN "DeliveryDeadlineNotPassed"
    ELSE "ok"

\* Mutant: refund without the status check.
RefundErrAnyStatus(paymentId) ==
    LET payment == payments[paymentId] IN
    IF payment.buyer = ZeroAddress THEN "PaymentNotFound"
    ELSE IF now <= payment.openedAt + deliveryDeadline THEN "DeliveryDeadlineNotPassed"
    ELSE "ok"

RefundErr(paymentId) ==
    LET payment == payments[paymentId] IN
    IF payment.buyer = ZeroAddress THEN "PaymentNotFound"
    ELSE IF payment.status # "Pending" THEN "InvalidStatus"
    ELSE IF Overflows(payment.openedAt, deliveryDeadline) THEN "Panic"
    ELSE IF now <= payment.openedAt + deliveryDeadline THEN "DeliveryDeadlineNotPassed"
    ELSE "ok"

Refund(caller, paymentId) ==
    /\ RefundErr(paymentId) = "ok"
    /\ RefundToBuyer(paymentId)
    /\ UNCHANGED <<peripheryVars, now, registryVars, paymentIds, buyerPayments, sellerPayments,
                   paymentCounter, adminVars, allowance>>

\* Mutant: resolveDispute without onlyOwner.
ResolveDisputeErrAnyCaller(caller, paymentId) ==
    LET payment == payments[paymentId] IN
    IF payment.buyer = ZeroAddress THEN "PaymentNotFound"
    ELSE IF payment.status # "Disputed" THEN "InvalidStatus"
    ELSE "ok"

ResolveDisputeErr(caller, paymentId) ==
    LET payment == payments[paymentId] IN
    IF caller # Owner THEN "OwnableUnauthorizedAccount"
    ELSE IF payment.buyer = ZeroAddress THEN "PaymentNotFound"
    ELSE IF payment.status # "Disputed" THEN "InvalidStatus"
    ELSE "ok"

ResolveDispute(caller, paymentId, buyerWins) ==
    /\ ResolveDisputeErr(caller, paymentId) = "ok"
    /\ IF buyerWins THEN RefundToBuyer(paymentId) ELSE PayoutToSeller(paymentId)
    /\ UNCHANGED <<peripheryVars, now, registryVars, paymentIds, buyerPayments, sellerPayments,
                   paymentCounter, adminVars, allowance>>

WithdrawProtocolFeesErr ==
    IF accumulatedFees = 0 THEN "InvalidAmount" ELSE "ok"

WithdrawProtocolFees(caller) ==
    /\ WithdrawProtocolFeesErr = "ok"
    /\ accumulatedFees' = 0
    /\ balanceOf' = Transfer(balanceOf, Escrow, feeRecipient, accumulatedFees)
    /\ UNCHANGED <<peripheryVars, now, registryVars, paymentVars, adminVars, allowance>>

\* Mutant: setProtocolFee without the cap.
SetProtocolFeeErrNoCap(caller, newFeeBps) ==
    IF caller # Owner THEN "OwnableUnauthorizedAccount"
    ELSE "ok"

SetProtocolFeeErr(caller, newFeeBps) ==
    IF caller # Owner THEN "OwnableUnauthorizedAccount"
    ELSE IF newFeeBps > MAX_PROTOCOL_FEE_BPS THEN "FeeTooHigh"
    ELSE "ok"

SetProtocolFee(caller, newFeeBps) ==
    /\ SetProtocolFeeErr(caller, newFeeBps) = "ok"
    /\ protocolFeeBps' = newFeeBps
    /\ UNCHANGED <<peripheryVars, now, registryVars, paymentVars, feeRecipient, deliveryDeadline,
                   accumulatedFees, tokenVars>>

SetFeeRecipientErr(caller, newRecipient) ==
    IF caller # Owner THEN "OwnableUnauthorizedAccount"
    ELSE IF newRecipient = ZeroAddress THEN "ZeroAddress"
    ELSE "ok"

SetFeeRecipient(caller, newRecipient) ==
    /\ SetFeeRecipientErr(caller, newRecipient) = "ok"
    /\ feeRecipient' = newRecipient
    /\ UNCHANGED <<peripheryVars, now, registryVars, paymentVars, protocolFeeBps, deliveryDeadline,
                   accumulatedFees, tokenVars>>

SetDeliveryDeadlineErr(caller) ==
    IF caller # Owner THEN "OwnableUnauthorizedAccount" ELSE "ok"

SetDeliveryDeadline(caller, newDeadline) ==
    /\ SetDeliveryDeadlineErr(caller) = "ok"
    /\ deliveryDeadline' = newDeadline
    /\ UNCHANGED <<peripheryVars, now, registryVars, paymentVars, protocolFeeBps, feeRecipient,
                   accumulatedFees, tokenVars>>

\* -------------------------------------------------------- SellerBondVault
RECURSIVE SumBalances(_, _)
SumBalances(bal, holders) ==
    IF holders = {} THEN 0
    ELSE LET h == CHOOSE x \in holders : TRUE
         IN bal[h] + SumBalances(bal, holders \ {h})

\* MockERC20.mint, as the tests fund a seller before bonding.
Mint(to, amount) ==
    /\ SumBalances(balanceOf, Holders) + amount <= InitialMint + BondMint
    /\ balanceOf' = [balanceOf EXCEPT ![to] = @ + amount]
    /\ UNCHANGED <<now, escrowVars, peripheryVars>>

BondApprove(owner, amount) ==
    /\ bondAllowance' = [bondAllowance EXCEPT ![owner] = amount]
    /\ UNCHANGED <<now, escrowVars, routerVars, balanceOf, bonds, slashRecords, bondEscrow,
                   receiptVars, reputationVars>>

DepositErr(caller, amount) ==
    IF amount = 0 THEN "ZeroAmount"
    ELSE IF bondAllowance[caller] < amount THEN "ERC20InsufficientAllowance"
    ELSE IF balanceOf[caller] < amount THEN "ERC20InsufficientBalance"
    ELSE "ok"

\* Mutant: a one-day lock.
DepositLockOneDay == now + DefaultDeliveryDeadline

\* The lock a deposit made now puts on the whole bond.
DepositLock == now + MIN_LOCK_PERIOD

Deposit(caller, amount) ==
    /\ DepositErr(caller, amount) = "ok"
    /\ bonds' = [bonds EXCEPT ![caller].amount = @ + amount,
                              ![caller].lockedUntil = DepositLock]
    /\ balanceOf' = Transfer(balanceOf, caller, BondVault, amount)
    /\ bondAllowance' = [bondAllowance EXCEPT ![caller] = @ - amount]
    /\ UNCHANGED <<now, escrowVars, routerVars, slashRecords, bondEscrow, receiptVars, reputationVars>>

\* Mutant: withdraw without the active-payments check.
WithdrawErrNoActiveCheck(caller, amount) ==
    IF amount = 0 THEN "ZeroAmount"
    ELSE IF bonds[caller].amount < amount THEN "InsufficientBond"
    ELSE IF now < bonds[caller].lockedUntil THEN "BondLocked"
    ELSE "ok"

WithdrawErr(caller, amount) ==
    IF amount = 0 THEN "ZeroAmount"
    ELSE IF bonds[caller].amount < amount THEN "InsufficientBond"
    ELSE IF now < bonds[caller].lockedUntil THEN "BondLocked"
    ELSE IF bonds[caller].activePayments > 0 THEN "ActivePaymentsExist"
    ELSE IF balanceOf[BondVault] < amount THEN "ERC20InsufficientBalance"
    ELSE "ok"

Withdraw(caller, amount) ==
    /\ WithdrawErr(caller, amount) = "ok"
    /\ bonds' = [bonds EXCEPT ![caller].amount = @ - amount]
    /\ balanceOf' = Transfer(balanceOf, BondVault, caller, amount)
    /\ UNCHANGED <<now, escrowVars, routerVars, bondAllowance, slashRecords, bondEscrow,
                   receiptVars, reputationVars>>

\* Mutant: the slash rounded up.
SlashAmountRoundedUp(seller, slashBps) ==
    (bonds[seller].amount * slashBps + BPS_DENOMINATOR - 1) \div BPS_DENOMINATOR

SlashAmount(seller, slashBps) == (bonds[seller].amount * slashBps) \div BPS_DENOMINATOR

SlashErr(caller, seller, slashBps) ==
    IF caller # bondEscrow /\ caller # Owner THEN "NotAuthorized"
    ELSE IF slashBps > MAX_SLASH_BPS THEN "SlashExceedsMax"
    ELSE IF SlashAmount(seller, slashBps) > bonds[seller].amount THEN "SlashExceedsBond"
    ELSE IF balanceOf[BondVault] < SlashAmount(seller, slashBps) THEN "ERC20InsufficientBalance"
    ELSE "ok"

\* Mutant: the slash paid out without being taken from the bond.
SlashKeepsBond(caller, seller, paymentId, slashBps, reason) ==
    /\ Len(slashRecords[seller]) < MaxSlashRecords
    /\ SlashErr(caller, seller, slashBps) = "ok"
    /\ LET slashAmount == SlashAmount(seller, slashBps) IN
        /\ bonds' = [bonds EXCEPT ![seller].totalSlashed = @ + slashAmount]
        /\ slashRecords' = [slashRecords EXCEPT ![seller] =
              Append(@, [paymentId |-> paymentId, amount |-> slashAmount,
                         timestamp |-> now, reason |-> reason])]
        /\ balanceOf' = Transfer(balanceOf, BondVault, Owner, slashAmount)
    /\ UNCHANGED <<now, escrowVars, routerVars, bondAllowance, bondEscrow, receiptVars, reputationVars>>

Slash(caller, seller, paymentId, slashBps, reason) ==
    /\ Len(slashRecords[seller]) < MaxSlashRecords
    /\ SlashErr(caller, seller, slashBps) = "ok"
    /\ LET slashAmount == SlashAmount(seller, slashBps) IN
        /\ bonds' = [bonds EXCEPT ![seller].amount = @ - slashAmount,
                                  ![seller].totalSlashed = @ + slashAmount]
        /\ slashRecords' = [slashRecords EXCEPT ![seller] =
              Append(@, [paymentId |-> paymentId, amount |-> slashAmount,
                         timestamp |-> now, reason |-> reason])]
        /\ balanceOf' = Transfer(balanceOf, BondVault, Owner, slashAmount)
    /\ UNCHANGED <<now, escrowVars, routerVars, bondAllowance, bondEscrow, receiptVars, reputationVars>>

ActivePaymentsErr(caller) ==
    IF caller # bondEscrow THEN "NotAuthorized" ELSE "ok"

IncrementActivePayments(caller, seller) ==
    /\ bonds[seller].activePayments < MaxActivePayments
    /\ ActivePaymentsErr(caller) = "ok"
    /\ bonds' = [bonds EXCEPT ![seller].activePayments = @ + 1]
    /\ UNCHANGED <<now, escrowVars, routerVars, tokenVars, bondAllowance, slashRecords, bondEscrow,
                   receiptVars, reputationVars>>

DecrementActivePayments(caller, seller) ==
    /\ ActivePaymentsErr(caller) = "ok"
    /\ bonds' = [bonds EXCEPT ![seller].activePayments = IF @ > 0 THEN @ - 1 ELSE @]
    /\ UNCHANGED <<now, escrowVars, routerVars, tokenVars, bondAllowance, slashRecords, bondEscrow,
                   receiptVars, reputationVars>>

BondSetEscrowVaultErr(caller, escrowVault) ==
    IF caller # Owner THEN "OwnableUnauthorizedAccount"
    ELSE IF escrowVault = ZeroAddress THEN "ZeroAddress"
    ELSE "ok"

BondSetEscrowVault(caller, escrowVault) ==
    /\ BondSetEscrowVaultErr(caller, escrowVault) = "ok"
    /\ bondEscrow' = escrowVault
    /\ UNCHANGED <<now, escrowVars, routerVars, tokenVars, bondAllowance, bonds, slashRecords,
                   receiptVars, reputationVars>>

GetAvailableBond(seller) ==
    IF now < bonds[seller].lockedUntil \/ bonds[seller].activePayments > 0
    THEN 0 ELSE bonds[seller].amount

\* ----------------------------------------------------------- ReceiptStore
\* Mutant: storeReceipt without the write-once check.
StoreReceiptErrNoExistsCheck(caller, paymentId) ==
    IF caller # receiptEscrow /\ caller # Owner THEN "NotAuthorized" ELSE "ok"

StoreReceiptErr(caller, paymentId) ==
    IF caller # receiptEscrow /\ caller # Owner THEN "NotAuthorized"
    ELSE IF receipts[paymentId].timestamp # 0 THEN "ReceiptAlreadyExists"
    ELSE "ok"

StoreReceipt(caller, paymentId, endpointId, buyer, seller, deliveryHash, responseMetaHash, amount) ==
    /\ StoreReceiptErr(caller, paymentId) = "ok"
    /\ receipts' = [receipts EXCEPT ![paymentId] =
          [paymentId |-> paymentId, endpointId |-> endpointId, buyer |-> buyer,
           seller |-> seller, deliveryHash |-> deliveryHash,
           responseMetaHash |-> responseMetaHash, timestamp |-> now,
           amount |-> amount]]
    /\ receiptIds' = Append(receiptIds, paymentId)
    /\ UNCHANGED <<now, escrowVars, routerVars, balanceOf, bondVars, receiptEscrow, reputationVars>>

ReceiptSetEscrowVaultErr(caller, escrowVault) ==
    IF caller # Owner THEN "OwnableUnauthorizedAccount"
    ELSE IF escrowVault = ZeroAddress THEN "ZeroAddress"
    ELSE "ok"

ReceiptSetEscrowVault(caller, escrowVault) ==
    /\ ReceiptSetEscrowVaultErr(caller, escrowVault) = "ok"
    /\ receiptEscrow' = escrowVault
    /\ UNCHANGED <<now, escrowVars, routerVars, balanceOf, bondVars, receipts, receiptIds, reputationVars>>

ReceiptExists(paymentId) == receipts[paymentId].timestamp # 0

GetReceiptErr(paymentId) ==
    IF receipts[paymentId].timestamp = 0 THEN "ReceiptNotFound" ELSE "ok"

VerifyDeliveryHash(paymentId, deliveryHash) ==
    receipts[paymentId].deliveryHash = deliveryHash

\* ------------------------------------------------------- ReputationEngine
OnlyEscrowOrOwnerErr(caller) ==
    IF caller # reputationEscrow /\ caller # Owner THEN "NotAuthorized" ELSE "ok"

\* Mutant: the success rate weighted 100% instead of 70%.
GetSellerReputationScoreHeavy(ss) ==
    IF ss.totalDeliveries = 0 THEN 0
    ELSE
      LET successRate == (ss.successfulDeliveries * BPS_DENOMINATOR) \div ss.totalDeliveries
          successComponent == (successRate * BPS_DENOMINATOR) \div BPS_DENOMINATOR
          disputeRate == (ss.disputesLost * BPS_DENOMINATOR) \div ss.totalDeliveries
          lowDisputeRate == IF disputeRate >= BPS_DENOMINATOR THEN 0
                            ELSE BPS_DENOMINATOR - disputeRate
          disputeComponent == (lowDisputeRate * 2000) \div BPS_DENOMINATOR
          volumeRatio == IF ss.totalVolumeUSD6 >= MAX_VOLUME_FOR_BONUS THEN BPS_DENOMINATOR
                         ELSE (ss.totalVolumeUSD6 * BPS_DENOMINATOR) \div MAX_VOLUME_FOR_BONUS
          volumeComponent == (volumeRatio * 1000) \div BPS_DENOMINATOR
      IN successComponent + disputeComponent + volumeComponent

GetSellerReputationScore(ss) ==
    IF ss.totalDeliveries = 0 THEN 0
    ELSE
      LET successRate == (ss.successfulDeliveries * BPS_DENOMINATOR) \div ss.totalDeliveries
          successComponent == (successRate * 7000) \div BPS_DENOMINATOR
          disputeRate == (ss.disputesLost * BPS_DENOMINATOR) \div ss.totalDeliveries
          lowDisputeRate == IF disputeRate >= BPS_DENOMINATOR THEN 0
                            ELSE BPS_DENOMINATOR - disputeRate
          disputeComponent == (lowDisputeRate * 2000) \div BPS_DENOMINATOR
          volumeRatio == IF ss.totalVolumeUSD6 >= MAX_VOLUME_FOR_BONUS THEN BPS_DENOMINATOR
                         ELSE (ss.totalVolumeUSD6 * BPS_DENOMINATOR) \div MAX_VOLUME_FOR_BONUS
          volumeComponent == (volumeRatio * 1000) \div BPS_DENOMINATOR
      IN successComponent + disputeComponent + volumeComponent

GetBuyerReputationScore(bs) ==
    IF bs.totalPayments = 0 THEN 0
    ELSE
      LET falseDisputeRate == IF bs.totalDisputes > 0
                              THEN ((bs.totalDisputes - bs.disputesWon) * BPS_DENOMINATOR)
                                      \div bs.totalPayments
                              ELSE 0
          fairBuyerRate == IF falseDisputeRate >= BPS_DENOMINATOR THEN 0
                           ELSE BPS_DENOMINATOR - falseDisputeRate
          fairComponent == (fairBuyerRate * 8000) \div BPS_DENOMINATOR
          activityRatio == IF bs.totalPayments >= 100 THEN BPS_DENOMINATOR
                           ELSE (bs.totalPayments * BPS_DENOMINATOR) \div 100
          activityComponent == (activityRatio * 2000) \div BPS_DENOMINATOR
      IN fairComponent + activityComponent

\* Mutant: a full board gives way to a seller who only ties the lowest score.
UpdateLeaderboardOnTie(top, scores, seller) ==
    IF \E i \in 1 .. Len(top) : top[i] = seller THEN top
    ELSE IF Len(top) < MAX_LEADERBOARD THEN Append(top, seller)
    ELSE
      LET score == [i \in 1 .. Len(top) |-> GetSellerReputationScore(scores[top[i]])]
          worstIndex == CHOOSE i \in 1 .. Len(top) :
                            /\ \A j \in 1 .. Len(top) : score[i] <= score[j]
                            /\ \A j \in 1 .. i - 1 : score[j] > score[i]
      IN IF GetSellerReputationScore(scores[seller]) >= score[worstIndex]
         THEN [top EXCEPT ![worstIndex] = seller]
         ELSE top

\* _updateLeaderboard, run on the scores the recording call has just written.
UpdateLeaderboard(top, scores, seller) ==
    IF \E i \in 1 .. Len(top) : top[i] = seller THEN top
    ELSE IF Len(top) < MAX_LEADERBOARD THEN Append(top, seller)
    ELSE
      LET score == [i \in 1 .. Len(top) |-> GetSellerReputationScore(scores[top[i]])]
          worstIndex == CHOOSE i \in 1 .. Len(top) :
                            /\ \A j \in 1 .. Len(top) : score[i] <= score[j]
                            /\ \A j \in 1 .. i - 1 : score[j] > score[i]
      IN IF GetSellerReputationScore(scores[seller]) > score[worstIndex]
         THEN [top EXCEPT ![worstIndex] = seller]
         ELSE top

Touched(score) ==
    [score EXCEPT !.lastActivityAt = now,
                  !.registeredAt = IF @ = 0 THEN now ELSE @]

RecordedEvents(seller) ==
    sellerScores[seller].totalDeliveries + sellerScores[seller].totalDisputes

RecordDelivery(caller, paymentId, seller, buyer) ==
    /\ RecordedEvents(seller) < MaxRecords
    /\ OnlyEscrowOrOwnerErr(caller) = "ok"
    /\ sellerScores' = [sellerScores EXCEPT ![seller] =
          Touched([@ EXCEPT !.totalDeliveries = @ + 1, !.successfulDeliveries = @ + 1])]
    /\ buyerScores' = [buyerScores EXCEPT ![buyer] =
          Touched([@ EXCEPT !.totalPayments = @ + 1])]
    /\ topSellers' = UpdateLeaderboard(topSellers, sellerScores', seller)
    /\ UNCHANGED <<now, escrowVars, routerVars, balanceOf, bondVars, receiptVars, reputationEscrow>>

RecordDispute(caller, paymentId, seller, buyer, buyerWon) ==
    /\ RecordedEvents(seller) < MaxRecords
    /\ OnlyEscrowOrOwnerErr(caller) = "ok"
    /\ sellerScores' = [sellerScores EXCEPT ![seller] =
          Touched([@ EXCEPT !.totalDisputes = @ + 1,
                            !.disputesLost = IF buyerWon THEN @ + 1 ELSE @])]
    /\ buyerScores' = [buyerScores EXCEPT ![buyer] =
          Touched([@ EXCEPT !.totalDisputes = @ + 1,
                            !.disputesWon = IF buyerWon THEN @ + 1 ELSE @])]
    /\ topSellers' = UpdateLeaderboard(topSellers, sellerScores', seller)
    /\ UNCHANGED <<now, escrowVars, routerVars, balanceOf, bondVars, receiptVars, reputationEscrow>>

RecordRefund(caller, paymentId, seller, buyer) ==
    /\ RecordedEvents(seller) < MaxRecords
    /\ OnlyEscrowOrOwnerErr(caller) = "ok"
    /\ sellerScores' = [sellerScores EXCEPT ![seller] =
          Touched([@ EXCEPT !.totalRefunds = @ + 1, !.totalDeliveries = @ + 1])]
    /\ buyerScores' = [buyerScores EXCEPT ![buyer] =
          Touched([@ EXCEPT !.totalPayments = @ + 1])]
    /\ topSellers' = UpdateLeaderboard(topSellers, sellerScores', seller)
    /\ UNCHANGED <<now, escrowVars, routerVars, balanceOf, bondVars, receiptVars, reputationEscrow>>

ReputationSetEscrowVaultErr(caller, escrowVault) ==
    IF caller # Owner THEN "OwnableUnauthorizedAccount"
    ELSE IF escrowVault = ZeroAddress THEN "ZeroAddress"
    ELSE "ok"

ReputationSetEscrowVault(caller, escrowVault) ==
    /\ ReputationSetEscrowVaultErr(caller, escrowVault) = "ok"
    /\ reputationEscrow' = escrowVault
    /\ UNCHANGED <<now, escrowVars, routerVars, balanceOf, bondVars, receiptVars,
                   sellerScores, buyerScores, topSellers>>

\* ---------------------------------------------------------------- clock
\* The ledger's clock only moves forward.  It is advanced to the times at
\* which some in-flight payment's time gate changes its answer: the delivery
\* deadline of a Pending payment and the end of the dispute window of a
\* Delivered one, and the second after each.  A deadline whose sum with
\* openedAt does not fit a uint256 is a gate no time opens.
TimeGates ==
    UNION { IF payments[p].status = "Pending"
            THEN IF Overflows(payments[p].openedAt, deliveryDeadline) THEN {}
                 ELSE {payments[p].openedAt + deliveryDeadline,
                       payments[p].openedAt + deliveryDeadline + 1}
            ELSE IF payments[p].status = "Delivered"
            THEN {payments[p].disputeWindowEnds, payments[p].disputeWindowEnds + 1}
            ELSE {} : p \in {q \in 1 .. MaxPayments : InFlight(q)} }

AdvanceTime(t) ==
    /\ t > now
    /\ now' = t
    /\ UNCHANGED <<peripheryVars, registryVars, paymentVars, adminVars, accumulatedFees, tokenVars>>

\* The times at which a bond's withdrawal lock changes its answer, within
\* the horizon the model follows the clock to.
BondTimeGates ==
    { t \in UNION { {bonds[s].lockedUntil - 1, bonds[s].lockedUntil} : s \in BondDepositors } :
        t <= StartTime + MaxLockPeriods * MIN_LOCK_PERIOD }

\* One more second on the clock, within the horizon the stores are followed to.
Tick ==
    /\ now < StartTime + MaxTicks
    /\ AdvanceTime(now + 1)

\* ---------------------------------------------------------- PaymentRouter
\* EscrowVault.openPayment as the Router calls it, msg.sender being the
\* Router: the checks in the vault's order, on the Router's allowance
\* towards the vault and the Router's balance at the moment of the call.
RouterOpenErr(endpointId, maxPrice, routerAllowed, routerBalance) ==
    IF ~IsValidEndpoint(endpointId) THEN "InvalidEndpoint"
    ELSE IF ~GetEndpoint(endpointId).active THEN "EndpointNotActive"
    ELSE IF GetEndpoint(endpointId).pricePerCall > maxPrice THEN "InvalidAmount"
    ELSE IF routerAllowed < GetEndpoint(endpointId).pricePerCall THEN "InsufficientAllowance"
    ELSE IF Overflows(now + GetEndpoint(endpointId).disputeWindowSeconds, deliveryDeadline)
         THEN "Panic"
    ELSE IF routerBalance < GetEndpoint(endpointId).pricePerCall THEN "ERC20InsufficientBalance"
    ELSE "ok"

\* The record openPayment stores for msg.sender = buyer.
NewPayment(paymentId, buyer, endpointId, maxPrice, buyerNoteHash) ==
    LET endpoint == GetEndpoint(endpointId) IN
    [paymentId |-> paymentId, endpointId |-> endpointId,
     buyer |-> buyer, seller |-> endpoint.seller,
     amount |-> OpenAmount(endpoint, maxPrice),
     openedAt |-> now, deliveredAt |-> 0,
     disputeWindowEnds |-> now + endpoint.disputeWindowSeconds + deliveryDeadline,
     status |-> "Pending", buyerNoteHash |-> buyerNoteHash,
     deliveryHash |-> ZeroHash, responseMetaHash |-> ZeroHash,
     evidenceHash |-> ZeroHash]

RouterApprove(owner, amount) ==
    /\ routerAllowance' = [routerAllowance EXCEPT ![owner] = amount]
    /\ UNCHANGED <<now, escrowVars, balanceOf, bondVars, receiptVars, reputationVars,
                   revenueSplits, splitBalances>>

RouteAndPayErr(caller, endpointId, maxPrice) ==
    IF routerAllowance[caller] < maxPrice THEN "ERC20InsufficientAllowance"
    ELSE IF balanceOf[caller] < maxPrice THEN "ERC20InsufficientBalance"
    ELSE RouterOpenErr(endpointId, maxPrice, maxPrice, balanceOf[Router] + maxPrice)

RouteAndPay(caller, endpointId, maxPrice, buyerNoteHash) ==
    /\ paymentCounter < MaxPayments
    /\ RouteAndPayErr(caller, endpointId, maxPrice) = "ok"
    /\ LET paymentId == paymentCounter + 1
           payment == NewPayment(paymentId, Router, endpointId, maxPrice, buyerNoteHash)
       IN
        /\ payments' = [payments EXCEPT ![paymentId] = payment]
        /\ paymentIds' = Append(paymentIds, paymentId)
        /\ buyerPayments' = [buyerPayments EXCEPT ![Router] = Append(@, paymentId)]
        /\ sellerPayments' = [sellerPayments EXCEPT ![payment.seller] = Append(@, paymentId)]
        /\ balanceOf' = Transfer(Transfer(balanceOf, caller, Router, maxPrice),
                                 Router, Escrow, payment.amount)
        /\ allowance' = [allowance EXCEPT ![Router] = maxPrice - payment.amount]
    /\ paymentCounter' = paymentCounter + 1
    /\ routerAllowance' = [routerAllowance EXCEPT ![caller] = @ - maxPrice]
    /\ UNCHANGED <<now, registryVars, adminVars, accumulatedFees, bondVars, receiptVars,
                   reputationVars, revenueSplits, splitBalances>>

RECURSIVE SumSeq(_)
SumSeq(q) == IF q = <<>> THEN 0 ELSE Head(q) + SumSeq(Tail(q))

BatchOpenPaymentsErr(caller, batchEndpointIds, maxPrices, buyerNoteHashes) ==
    IF Len(batchEndpointIds) = 0 THEN "EmptyBatch"
    ELSE IF Len(batchEndpointIds) > MAX_BATCH_SIZE THEN "BatchTooLarge"
    ELSE IF Len(batchEndpointIds) # Len(maxPrices) \/ Len(batchEndpointIds) # Len(buyerNoteHashes)
         THEN "InvalidSplitConfig"
    ELSE IF routerAllowance[caller] < SumSeq(maxPrices) THEN "ERC20InsufficientAllowance"
    ELSE IF balanceOf[caller] < SumSeq(maxPrices) THEN "ERC20InsufficientBalance"
    ELSE "ok"

\* The loop of batchOpenPayments from entry i on: b carries the vault's
\* ledger, the balances, the Router's allowance towards the vault and
\* usedAmount as the entries before i left them.  A reverting openPayment
\* is caught and leaves b as it is.
RECURSIVE BatchLoop(_, _, _, _, _)
BatchLoop(i, batchEndpointIds, maxPrices, buyerNoteHashes, b) ==
    IF i > Len(batchEndpointIds) THEN b
    ELSE IF RouterOpenErr(batchEndpointIds[i], maxPrices[i], b.allowed, b.balanceOf[Router]) # "ok"
         THEN BatchLoop(i + 1, batchEndpointIds, maxPrices, buyerNoteHashes, b)
    ELSE
      LET paymentId == b.paymentCounter + 1
          payment == NewPayment(paymentId, Router, batchEndpointIds[i], maxPrices[i],
                                buyerNoteHashes[i])
      IN BatchLoop(i + 1, batchEndpointIds, maxPrices, buyerNoteHashes,
            [payments |-> [p \in DOMAIN b.payments |->
                              IF p = paymentId THEN payment ELSE b.payments[p]],
             paymentIds |-> Append(b.paymentIds, paymentId),
             buyerPayments |-> [b.buyerPayments EXCEPT ![Router] = Append(@, paymentId)],
             sellerPayments |-> [b.sellerPayments EXCEPT ![payment.seller] =
                                    Append(@, paymentId)],
             paymentCounter |-> paymentId,
             balanceOf |-> Transfer(b.balanceOf, Router, Escrow, payment.amount),
             allowed |-> b.allowed - payment.amount,
             usedAmount |-> b.usedAmount + maxPrices[i]])

BatchOpenPayments(caller, batchEndpointIds, maxPrices, buyerNoteHashes) ==
    /\ BatchOpenPaymentsErr(caller, batchEndpointIds, maxPrices, buyerNoteHashes) = "ok"
    /\ LET totalAmount == SumSeq(maxPrices)
           b == BatchLoop(1, batchEndpointIds, maxPrices, buyerNoteHashes,
                    [payments |-> payments, paymentIds |-> paymentIds,
                     buyerPayments |-> buyerPayments, sellerPayments |-> sellerPayments,
                     paymentCounter |-> paymentCounter,
                     balanceOf |-> Transfer(balanceOf, caller, Router, totalAmount),
                     allowed |-> totalAmount, usedAmount |-> 0])
       IN
        /\ b.paymentCounter <= MaxPayments
        /\ payments' = b.payments
        /\ paymentIds' = b.paymentIds
        /\ buyerPayments' = b.buyerPayments
        /\ sellerPayments' = b.sellerPayments
        /\ paymentCounter' = b.paymentCounter
        /\ allowance' = [allowance EXCEPT ![Router] = b.allowed]
        /\ balanceOf' = IF b.usedAmount < totalAmount
                        THEN Transfer(b.balanceOf, Router, caller, totalAmount - b.usedAmount)
                        ELSE b.balanceOf
        /\ routerAllowance' = [routerAllowance EXCEPT ![caller] = @ - totalAmount]
    /\ UNCHANGED <<now, registryVars, adminVars, accumulatedFees, bondVars, receiptVars,
                   reputationVars, revenueSplits, splitBalances>>

\* The validation loop of setRevenueSplit from entry i on, total being the
\* shares summed so far.
RECURSIVE FirstZeroOrSum(_, _, _, _)
FirstZeroOrSum(i, recipients, sharesBps, total) ==
    IF i > Len(sharesBps)
    THEN IF total # BPS_DENOMINATOR THEN "SharesMustSum10000" ELSE "ok"
    ELSE IF recipients[i] = ZeroAddress THEN "ZeroAddress"
    ELSE FirstZeroOrSum(i + 1, recipients, sharesBps, total + sharesBps[i])

SetRevenueSplitErr(recipients, sharesBps) ==
    IF Len(recipients) = 0 THEN "InvalidSplitConfig"
    ELSE IF Len(recipients) > MAX_SPLIT_RECIPIENTS THEN "TooManyRecipients"
    ELSE IF Len(recipients) # Len(sharesBps) THEN "InvalidSplitConfig"
    ELSE FirstZeroOrSum(1, recipients, sharesBps, 0)

SetRevenueSplit(caller, recipients, sharesBps) ==
    /\ SetRevenueSplitErr(recipients, sharesBps) = "ok"
    /\ revenueSplits' = [revenueSplits EXCEPT ![caller] =
          [recipients |-> recipients, sharesBps |-> sharesBps, active |-> TRUE]]
    /\ UNCHANGED <<now, escrowVars, balanceOf, bondVars, receiptVars, reputationVars,
                   routerAllowance, splitBalances>>

RemoveRevenueSplit(caller) ==
    /\ revenueSplits' = [revenueSplits EXCEPT ![caller] = NoSplit]
    /\ UNCHANGED <<now, escrowVars, balanceOf, bondVars, receiptVars, reputationVars,
                   routerAllowance, splitBalances>>

ExecuteSplitErr(caller, seller, amount) ==
    IF ~revenueSplits[seller].active THEN "NoSplitConfigured"
    ELSE IF routerAllowance[caller] < amount THEN "ERC20InsufficientAllowance"
    ELSE IF balanceOf[caller] < amount THEN "ERC20InsufficientBalance"
    ELSE "ok"

\* The crediting loop of executeSplit from recipient i on.
RECURSIVE Credited(_, _, _, _)
Credited(i, split, amount, credits) ==
    IF i > Len(split.recipients) THEN credits
    ELSE Credited(i + 1, split, amount,
            [credits EXCEPT ![split.recipients[i]] =
                @ + (amount * split.sharesBps[i]) \div BPS_DENOMINATOR])

ExecuteSplit(caller, seller, amount) ==
    /\ ExecuteSplitErr(caller, seller, amount) = "ok"
    /\ balanceOf' = Transfer(balanceOf, caller, Router, amount)
    /\ routerAllowance' = [routerAllowance EXCEPT ![caller] = @ - amount]
    /\ splitBalances' = Credited(1, revenueSplits[seller], amount, splitBalances)
    /\ UNCHANGED <<now, escrowVars, bondVars, receiptVars, reputationVars, revenueSplits>>

WithdrawSplitBalanceErr(caller) ==
    IF splitBalances[caller] = 0 THEN "NothingToWithdraw"
    ELSE IF balanceOf[Router] < splitBalances[caller] THEN "ERC20InsufficientBalance"
    ELSE "ok"

WithdrawSplitBalance(caller) ==
    /\ WithdrawSplitBalanceErr(caller) = "ok"
    /\ splitBalances' = [splitBalances EXCEPT ![caller] = 0]
    /\ balanceOf' = Transfer(balanceOf, Router, caller, splitBalances[caller])
    /\ UNCHANGED <<now, escrowVars, bondVars, receiptVars, reputationVars,
                   routerAllowance, revenueSplits>>

\* -------------------------------------------------------- specification
Init ==
    /\ now = StartTime
    /\ endpoints = [e \in EndpointIdSpace |-> NoEndpoint]
    /\ endpointIds = <<>>
    /\ sellerEndpoints = [u \in Users |-> <<>>]
    /\ endpointCounter = 0
    /\ registryEscrow = ZeroAddress
    /\ payments = [p \in PaymentIdSpace |-> NoPayment]
    /\ paymentIds = <<>>
    /\ buyerPayments = [u \in Users \cup {Router} |-> <<>>]
    /\ sellerPayments = [u \in Users |-> <<>>]
    /\ paymentCounter = 0
    /\ protocolFeeBps \in {f \in FeeInputs : f <= MAX_PROTOCOL_FEE_BPS}
    /\ feeRecipient = Treasury
    /\ accumulatedFees = 0
    /\ deliveryDeadline = DefaultDeliveryDeadline
    /\ balanceOf = [a \in Holders |-> IF a \in Buyers THEN InitialMint ELSE 0]
    /\ allowance = [u \in Users \cup {Router} |-> 0]
    /\ bondAllowance = [u \in Users |-> 0]
    /\ bonds = [u \in Users |-> NoBond]
    /\ slashRecords = [u \in Users |-> <<>>]
    /\ bondEscrow = ZeroAddress
    /\ receipts = [p \in PaymentIdSpace |-> NoReceipt]
    /\ receiptIds = <<>>
    /\ receiptEscrow = ZeroAddress
    /\ sellerScores = [u \in Users |-> NoSellerScore]
    /\ buyerScores = [u \in Users |-> NoBuyerScore]
    /\ topSellers = <<>>
    /\ reputationEscrow = ZeroAddress
    /\ routerAllowance = [u \in Users |-> 0]
    /\ revenueSplits = [u \in Users |-> NoSplit]
    /\ splitBalances = [u \in Users |-> 0]

Next ==
    \/ \E t \in TimeGates : AdvanceTime(t)
    \/ \E b \in Buyers, a \in ApproveAmounts : Approve(b, a)
    \/ \E c \in Sellers, u \in URIs, pr \in Prices, cat \in Categories, w \in Windows, rb \in Bonds :
          RegisterEndpoint(c, u, pr, cat, w, rb)
    \/ \E c \in Users, e \in EndpointIdSpace, u \in URIs, pr \in Prices, w \in Windows :
          UpdateEndpoint(c, e, u, pr, w)
    \/ \E c \in Users, e \in EndpointIdSpace : DeactivateEndpoint(c, e)
    \/ \E c \in Users, e \in EndpointIdSpace : ReactivateEndpoint(c, e)
    \/ \E c \in Users, v \in VaultInputs : RegistrySetEscrowVault(c, v)
    \/ \E c \in Buyers, e \in EndpointIdSpace, mp \in Prices, n \in NoteHashes :
          OpenPayment(c, e, mp, n)
    \/ \E sig \in SigInputs, p \in PaymentIdSpace, dh \in DeliveryHashes, mh \in MetaHashes, c \in Users :
          MarkDeliveredWithSellerSig(c, p, dh, mh, sig)
    \/ \E c \in Users, p \in PaymentIdSpace, ev \in EvidenceHashes : Dispute(c, p, ev)
    \/ \E c \in Users, p \in PaymentIdSpace : Release(c, p)
    \/ \E c \in Users, p \in PaymentIdSpace : Refund(c, p)
    \/ \E c \in Users, p \in PaymentIdSpace, bw \in BOOLEAN : ResolveDispute(c, p, bw)
    \/ \E c \in Users : WithdrawProtocolFees(c)
    \/ \E c \in Users, f \in FeeInputs : SetProtocolFee(c, f)
    \/ \E c \in Users, r \in FeeRecipients : SetFeeRecipient(c, r)
    \/ \E c \in Users, d \in DeadlineInputs : SetDeliveryDeadline(c, d)

Spec == Init /\ [][Next]_vars

\* The ledger with an owner who may set any delivery deadline, under a
\* clock that keeps advancing and with release, refund and resolveDispute
\* weakly fair: a call that stays possible is eventually made (release and
\* refund by anyone, resolveDispute by the owner).  The clock is strongly
\* fair because it is followed only to the time gates of the payments in
\* flight: between two gates it has no step to take, and an owner who keeps
\* resetting deliveryDeadline moves the gates back and forth.
LiveNext ==
    \/ Next
    \/ \E c \in Users, d \in ExtremeDeadlines : SetDeliveryDeadline(c, d)

LiveSpec ==
    /\ Init
    /\ [][LiveNext]_vars
    /\ SF_vars(\E t \in TimeGates : AdvanceTime(t))
    /\ WF_vars(\E c \in Users, p \in PaymentIdSpace : Release(c, p))
    /\ WF_vars(\E c \in Users, p \in PaymentIdSpace : Refund(c, p))
    /\ WF_vars(\E p \in PaymentIdSpace, bw \in BOOLEAN : ResolveDispute(Owner, p, bw))

\* The SellerBondVault on its own: sellers fund, bond and withdraw, the
\* owner wires the vault and slashes, the wired vault counts payments.
BondNext ==
    \/ \E t \in BondTimeGates : AdvanceTime(t)
    \/ \E s \in BondDepositors : Mint(s, BondMint)
    \/ \E s \in BondDepositors : BondApprove(s, BondMint)
    \/ \E c \in Users, a \in DepositAmounts : Deposit(c, a)
    \/ \E c \in Users, a \in WithdrawAmounts : Withdraw(c, a)
    \/ \E c \in BondCallers, s \in BondDepositors, p \in PaymentIdSpace,
          bps \in SlashBpsInputs, r \in SlashReasons : Slash(c, s, p, bps, r)
    \/ \E c \in BondCallers, s \in BondDepositors : IncrementActivePayments(c, s)
    \/ \E c \in BondCallers, s \in BondDepositors : DecrementActivePayments(c, s)
    \/ \E c \in BondCallers, v \in BondVaultInputs : BondSetEscrowVault(c, v)

BondSpec == Init /\ [][BondNext]_vars

\* The ReceiptStore on its own: the owner wires it, callers store receipts.
ReceiptNext ==
    \/ Tick
    \/ \E c \in StoreCallers, p \in PaymentIdSpace, e \in EndpointIdSpace, b \in Buyers,
          sl \in Sellers, dh \in Hashes, mh \in MetaHashes, a \in ReceiptAmounts :
          StoreReceipt(c, p, e, b, sl, dh, mh, a)
    \/ \E c \in StoreCallers, v \in StoreVaultInputs : ReceiptSetEscrowVault(c, v)

ReceiptSpec == Init /\ [][ReceiptNext]_vars

\* The ReputationEngine on its own: the owner wires it, callers record
\* settlement outcomes.
ReputationNext ==
    \/ Tick
    \/ \E c \in ScoreCallers, p \in PaymentIdSpace, sl \in ScoredSellers, b \in ScoredBuyers :
          RecordDelivery(c, p, sl, b)
    \/ \E c \in ScoreCallers, p \in PaymentIdSpace, sl \in ScoredSellers, b \in ScoredBuyers,
          bw \in BOOLEAN : RecordDispute(c, p, sl, b, bw)
    \/ \E c \in ScoreCallers, p \in PaymentIdSpace, sl \in ScoredSellers, b \in ScoredBuyers :
          RecordRefund(c, p, sl, b)
    \/ \E c \in ScoreCallers, v \in ScoreVaultInputs : ReputationSetEscrowVault(c, v)

ReputationSpec == Init /\ [][ReputationNext]_vars

\* The five contracts side by side: the payment lifecycle on one listing,
\* with a seller who bonds, a receipt store that is wired and takes a
\* receipt, and a reputation engine that is wired.
SystemNext ==
    \/ \E t \in TimeGates : AdvanceTime(t)
    \/ \E b \in Buyers, a \in ApproveAmounts : Approve(b, a)
    \/ \E c \in Sellers, u \in SystemURIs, pr \in SystemPrices, cat \in Categories,
          w \in SystemWindows, rb \in Bonds : RegisterEndpoint(c, u, pr, cat, w, rb)
    \/ \E c \in Users, v \in VaultInputs : RegistrySetEscrowVault(c, v)
    \/ \E c \in Buyers, e \in EndpointIdSpace, mp \in SystemPrices, n \in NoteHashes :
          OpenPayment(c, e, mp, n)
    \/ \E sig \in SigInputs, p \in PaymentIdSpace, dh \in DeliveryHashes, mh \in MetaHashes,
          c \in Users : MarkDeliveredWithSellerSig(c, p, dh, mh, sig)
    \/ \E c \in Users, p \in PaymentIdSpace, ev \in EvidenceHashes : Dispute(c, p, ev)
    \/ \E c \in Users, p \in PaymentIdSpace : Release(c, p)
    \/ \E c \in Users, p \in PaymentIdSpace : Refund(c, p)
    \/ \E c \in Users, p \in PaymentIdSpace, bw \in BOOLEAN : ResolveDispute(c, p, bw)
    \/ \E s \in BondDepositors : Mint(s, BondMint)
    \/ \E s \in BondDepositors, a \in SystemDeposits : BondApprove(s, a)
    \/ \E c \in Users, a \in SystemDeposits : Deposit(c, a)
    \/ \E c \in StoreCallers, v \in SystemStoreVaults : ReceiptSetEscrowVault(c, v)
    \/ \E c \in StoreCallers, p \in 1 .. MaxPayments, e \in 1 .. MaxEndpoints, b \in Buyers,
          sl \in Sellers, dh \in DeliveryHashes, mh \in MetaHashes, a \in SystemPrices :
          StoreReceipt(c, p, e, b, sl, dh, mh, a)
    \/ \E c \in ScoreCallers, v \in SystemStoreVaults : ReputationSetEscrowVault(c, v)

SystemSpec == Init /\ [][SystemNext]_vars

TypeOK ==
    /\ now \in Nat
    /\ paymentCounter \in 0 .. MaxPayments
    /\ endpointCounter \in 0 .. MaxEndpoints
    /\ \A p \in PaymentIdSpace :
          payments[p].status \in {"Pending", "Delivered", "Released", "Refunded", "Disputed"}
    /\ \A a \in Holders : balanceOf[a] >= 0

\* ---------------------------------------------------------------- claims
Exists(p) == payments[p].buyer # ZeroAddress
Terminal(p) == Exists(p) /\ payments[p].status \in {"Released", "Refunded"}
Opened == {p \in 1 .. MaxPayments : Exists(p)}
StatusStep(p, from, to) == payments[p].status = from /\ payments'[p].status = to

\* C1: every change of a payment's status is one of the six edges of the
\* state graph, made by the operation that owns the edge, and no step puts a
\* payment back into Pending or Delivered once it has left it.
C1_StatusEdges ==
    [][\A p \in Opened :
        /\ payments'[p].status # payments[p].status =>
              \/ StatusStep(p, "Pending", "Delivered")
                   /\ \E c \in Users, dh \in DeliveryHashes, mh \in MetaHashes, sig \in SigInputs :
                          MarkDeliveredWithSellerSig(c, p, dh, mh, sig)
              \/ StatusStep(p, "Pending", "Refunded") /\ \E c \in Users : Refund(c, p)
              \/ StatusStep(p, "Delivered", "Disputed")
                   /\ \E c \in Users, ev \in EvidenceHashes : Dispute(c, p, ev)
              \/ StatusStep(p, "Delivered", "Released") /\ \E c \in Users : Release(c, p)
              \/ StatusStep(p, "Disputed", "Refunded") /\ \E c \in Users : ResolveDispute(c, p, TRUE)
              \/ StatusStep(p, "Disputed", "Released") /\ \E c \in Users : ResolveDispute(c, p, FALSE)
        /\ payments'[p].status = "Pending" => payments[p].status = "Pending"
        /\ payments'[p].status = "Delivered" => payments[p].status \in {"Pending", "Delivered"}
    ]_vars

\* A payment that went Pending, Delivered, Disputed and was then released.
C1_Witness ==
    \E p \in Opened : payments[p].status = "Released" /\ payments[p].evidenceHash # ZeroHash

\* C2: conservation.  A step that makes a payment Released pays the seller
\* amount - fee and accrues fee, fee = floor(amount * protocolFeeBps / 10000),
\* the two adding up to amount; a step that makes it Refunded pays the buyer
\* exactly amount and accrues nothing.  Escrow's balance drops by what was paid.
C2_Conservation ==
    [][\A p \in Opened :
        LET pay == payments[p]
            fee == (pay.amount * protocolFeeBps) \div 10000
            toSeller == balanceOf'[pay.seller] - balanceOf[pay.seller]
            toBuyer == balanceOf'[pay.buyer] - balanceOf[pay.buyer]
            accrued == accumulatedFees' - accumulatedFees
        IN
        /\ (payments'[p].status = "Released" /\ pay.status # "Released") =>
              /\ accrued = fee
              /\ toSeller = pay.amount - fee
              /\ toSeller + accrued = pay.amount
              /\ balanceOf'[Escrow] = balanceOf[Escrow] - toSeller
        /\ (payments'[p].status = "Refunded" /\ pay.status # "Refunded") =>
              /\ toBuyer = pay.amount
              /\ accrued = 0
              /\ balanceOf'[Escrow] = balanceOf[Escrow] - pay.amount
    ]_vars

\* A released payment whose fee was rounded down (130 * 500 / 10000 = 6.5),
\* the seller holding the rest.
C2_Witness ==
    \E p \in Opened :
        /\ payments[p].status = "Released"
        /\ payments[p].amount = 130
        /\ accumulatedFees = 6
        /\ balanceOf[payments[p].seller] = 124

\* C3: a Released or Refunded payment is final.  Every lifecycle call on it
\* is rejected (refund and release with InvalidStatus), its record never
\* changes, and while no other payment settles and no fees are withdrawn no
\* token moves.
C3_Rejected ==
    \A p \in Opened : Terminal(p) =>
        /\ RefundErr(p) = "InvalidStatus"
        /\ ReleaseErr(p) = "InvalidStatus"
        /\ \A c \in Users :
              /\ DisputeErr(c, p) \in {"NotBuyer", "InvalidStatus"}
              /\ ResolveDisputeErr(c, p) \in {"OwnableUnauthorizedAccount", "InvalidStatus"}
              /\ ~ENABLED Refund(c, p)
              /\ ~ENABLED Release(c, p)
              /\ \A bw \in BOOLEAN : ~ENABLED ResolveDispute(c, p, bw)
              /\ \A ev \in EvidenceHashes : ~ENABLED Dispute(c, p, ev)
              /\ \A dh \in DeliveryHashes, mh \in MetaHashes, sig \in SigInputs :
                    /\ MarkDeliveredErr(p, dh, mh, sig) = "InvalidStatus"
                    /\ ~ENABLED MarkDeliveredWithSellerSig(c, p, dh, mh, sig)

C3_TerminalFinal ==
    /\ []C3_Rejected
    /\ [][\A p \in Opened : Terminal(p) =>
            /\ payments'[p] = payments[p]
            /\ (\A q \in 1 .. MaxPayments : payments'[q] = payments[q])
                  /\ accumulatedFees' = accumulatedFees => balanceOf' = balanceOf
        ]_vars

\* A refunded payment after which the clock moved on and the listing changed:
\* the buyer holds the whole mint again.
C3_Witness ==
    \E p \in Opened :
        /\ payments[p].status = "Refunded"
        /\ now > payments[p].openedAt + deliveryDeadline
        /\ balanceOf[payments[p].buyer] = InitialMint
        /\ endpoints[payments[p].endpointId].pricePerCall # payments[p].amount

\* C4: release succeeds, whoever calls it, exactly when the payment exists,
\* is Delivered and now >= disputeWindowEnds; a Delivered payment before the
\* end of its window is rejected with DisputeWindowActive, any other status
\* with InvalidStatus.  The seller's balance grows only in a step that makes
\* a payment Released, and from Delivered only once the window has ended.
C4_Gate ==
    \A p \in PaymentIdSpace, c \in Users :
        /\ ENABLED Release(c, p) <=>
              (Exists(p) /\ payments[p].status = "Delivered"
                         /\ now >= payments[p].disputeWindowEnds)
        /\ (Exists(p) /\ payments[p].status = "Delivered"
                      /\ now < payments[p].disputeWindowEnds)
              => ReleaseErr(p) = "DisputeWindowActive"
        /\ (Exists(p) /\ payments[p].status # "Delivered") => ReleaseErr(p) = "InvalidStatus"

C4_Release ==
    /\ []C4_Gate
    /\ [][\A s \in Sellers : balanceOf'[s] > balanceOf[s] =>
            \E p \in Opened :
                /\ payments[p].seller = s
                /\ payments'[p].status = "Released"
                /\ payments[p].status = "Delivered" => now >= payments[p].disputeWindowEnds
                /\ payments[p].status \in {"Delivered", "Disputed"}
        ]_vars

\* An undisputed payment released at or after the end of its window.
C4_Witness ==
    \E p \in Opened :
        /\ payments[p].status = "Released"
        /\ payments[p].evidenceHash = ZeroHash
        /\ now >= payments[p].disputeWindowEnds
        /\ balanceOf[payments[p].seller] > 0

\* C5: refund succeeds, whoever calls it, exactly when the payment is
\* Pending and now > openedAt + deliveryDeadline; it makes the payment
\* Refunded and pays the whole amount to payment.buyer, not to the caller.
\* At or before the deadline it is rejected with DeliveryDeadlineNotPassed.
C5_Gate ==
    \A p \in Opened, c \in Users :
        /\ ENABLED Refund(c, p) <=>
              (payments[p].status = "Pending"
                 /\ now > payments[p].openedAt + deliveryDeadline)
        /\ (payments[p].status = "Pending"
               /\ now <= payments[p].openedAt + deliveryDeadline)
              => RefundErr(p) = "DeliveryDeadlineNotPassed"

C6_Gate ==
    \A p \in Opened, c \in Users :
        LET pay == payments[p] IN
        /\ \A ev \in EvidenceHashes :
              ENABLED Dispute(c, p, ev) <=>
                (c = pay.buyer /\ pay.status = "Delivered" /\ now <= pay.disputeWindowEnds)
        /\ c # pay.buyer => DisputeErr(c, p) = "NotBuyer"
        /\ (c = pay.buyer /\ pay.status # "Delivered") => DisputeErr(c, p) = "InvalidStatus"
        /\ (c = pay.buyer /\ pay.status = "Delivered" /\ now > pay.disputeWindowEnds)
              => DisputeErr(c, p) = "DisputeWindowExpired"
        /\ pay.status \in {"Pending", "Delivered"} => pay.evidenceHash = ZeroHash

C6_Dispute ==
    /\ []C6_Gate
    /\ [][\A p \in Opened :
            (payments'[p].evidenceHash # payments[p].evidenceHash
               \/ StatusStep(p, "Delivered", "Disputed")) =>
                /\ StatusStep(p, "Delivered", "Disputed")
                /\ now <= payments[p].disputeWindowEnds
                /\ payments'[p].evidenceHash \in EvidenceHashes
                /\ Dispute(payments[p].buyer, p, payments'[p].evidenceHash)
                /\ balanceOf' = balanceOf
                /\ accumulatedFees' = accumulatedFees
        ]_vars

\* A payment disputed at the very end of its dispute window.
C6_Witness ==
    \E p \in Opened :
        /\ payments[p].status = "Disputed"
        /\ payments[p].evidenceHash \in EvidenceHashes
        /\ now = payments[p].disputeWindowEnds

\* C7: resolveDispute succeeds only for the owner, on a Disputed payment.
\* buyerWins makes it Refunded and pays the buyer the whole amount; otherwise
\* it becomes Released and the seller is paid amount - fee.  While a payment
\* is Disputed release and refund are rejected, and its record changes only
\* in the owner's resolveDispute.
C7_Gate ==
    \A p \in Opened, c \in Users :
        /\ \A bw \in BOOLEAN :
              ENABLED ResolveDispute(c, p, bw) <=> (c = Owner /\ payments[p].status = "Disputed")
        /\ payments[p].status = "Disputed" =>
              /\ ReleaseErr(p) = "InvalidStatus"
              /\ RefundErr(p) = "InvalidStatus"
              /\ ~ENABLED Release(c, p)
              /\ ~ENABLED Refund(c, p)
              /\ c # Owner => ResolveDisputeErr(c, p) = "OwnableUnauthorizedAccount"

C7_Resolve ==
    /\ []C7_Gate
    /\ [][\A p \in Opened : payments[p].status = "Disputed" =>
            LET pay == payments[p]
                fee == (pay.amount * protocolFeeBps) \div 10000
            IN
            /\ payments'[p] # pay =>
                  /\ \E bw \in BOOLEAN : ResolveDispute(Owner, p, bw)
                  /\ \A c \in Users \ {Owner}, bw \in BOOLEAN : ~ResolveDispute(c, p, bw)
            /\ ResolveDispute(Owner, p, TRUE) =>
                  /\ payments'[p] = [pay EXCEPT !.status = "Refunded"]
                  /\ balanceOf'[pay.buyer] = balanceOf[pay.buyer] + pay.amount
                  /\ balanceOf'[pay.seller] = balanceOf[pay.seller]
            /\ ResolveDispute(Owner, p, FALSE) =>
                  /\ payments'[p] = [pay EXCEPT !.status = "Released"]
                  /\ balanceOf'[pay.seller] = balanceOf[pay.seller] + pay.amount - fee
                  /\ balanceOf'[pay.buyer] = balanceOf[pay.buyer]
            /\ (payments' = payments /\ accumulatedFees' >= accumulatedFees)
                  => balanceOf'[Escrow] >= balanceOf[Escrow]
        ]_vars

\* A disputed payment the owner resolved for the buyer.
C7_Witness ==
    \E p \in Opened :
        /\ payments[p].status = "Refunded"
        /\ payments[p].evidenceHash # ZeroHash
        /\ balanceOf[payments[p].buyer] = InitialMint

\* The signature payment.seller makes over the call's arguments at the
\* ledger's current time, for this EscrowVault.
SellerSig(p, dh, mh) ==
    Sign(payments[p].seller, DeliveryDigest(Escrow, p, dh, mh, now))

C8_Gate ==
    \A p \in Opened, c \in Users, dh \in DeliveryHashes, mh \in MetaHashes :
        LET pay == payments[p]
            sig == SellerSig(p, dh, mh)
        IN
        pay.status = "Pending" =>
          /\ (now <= pay.openedAt + deliveryDeadline /\ registryEscrow = Escrow)
                => ENABLED MarkDeliveredWithSellerSig(c, p, dh, mh, sig)
          /\ (now <= pay.openedAt + deliveryDeadline /\ registryEscrow # Escrow)
                => /\ MarkDeliveredErr(p, dh, mh, sig) = "NotAuthorized"
                   /\ ~ENABLED MarkDeliveredWithSellerSig(c, p, dh, mh, sig)
          /\ now > pay.openedAt + deliveryDeadline
                => /\ MarkDeliveredErr(p, dh, mh, sig) = "DeliveryDeadlinePassed"
                   /\ ~ENABLED MarkDeliveredWithSellerSig(c, p, dh, mh, sig)

C9_Gate ==
    \A p \in Opened, c \in Users, dh \in Hashes, mh \in MetaHashes,
       sig \in SigInputs \ {MalformedSig} :
        LET pay == payments[p] IN
        (sig.signer # pay.seller \/ sig.digest # DeliveryDigest(Escrow, p, dh, mh, now)) =>
          /\ ~ENABLED MarkDeliveredWithSellerSig(c, p, dh, mh, sig)
          /\ (pay.status = "Pending" /\ now <= pay.openedAt + deliveryDeadline)
                => MarkDeliveredErr(p, dh, mh, sig) = "InvalidSignature"
          /\ pay.status = "Pending" =>
                /\ pay.deliveredAt = 0
                /\ pay.deliveryHash = ZeroHash
                /\ pay.responseMetaHash = ZeroHash

C9_BadSignature ==
    /\ []C9_Gate
    /\ [][\A e \in 1 .. MaxEndpoints :
            endpoints'[e].totalCalls # endpoints[e].totalCalls =>
                \E p \in Opened, c \in Users, dh \in DeliveryHashes, mh \in MetaHashes :
                    /\ payments[p].endpointId = e
                    /\ MarkDeliveredWithSellerSig(c, p, dh, mh, SellerSig(p, dh, mh))
        ]_vars

\* A Pending payment the seller could deliver right now, for which a
\* signature of carol's over the same digest is refused.
C9_Witness ==
    \E p \in Opened, dh \in DeliveryHashes, mh \in MetaHashes :
        /\ payments[p].status = "Pending"
        /\ endpoints[payments[p].endpointId].totalCalls = 0
        /\ MarkDeliveredErr(p, dh, mh, SellerSig(p, dh, mh)) = "ok"
        /\ MarkDeliveredErr(p, dh, mh, Sign("carol", DeliveryDigest(Escrow, p, dh, mh, now)))
              = "InvalidSignature"

\* C10: price lock.  The step that opens a payment sets its amount to the
\* listing's pricePerCall of that moment and moves exactly that into escrow;
\* no later step changes the amount of an opened payment.
C10_PriceLock ==
    [][/\ \A p \in 1 .. MaxPayments :
            (~Exists(p) /\ payments'[p].buyer # ZeroAddress) =>
                LET e == payments'[p].endpointId IN
                /\ payments'[p].amount = endpoints[e].pricePerCall
                /\ balanceOf'[Escrow] = balanceOf[Escrow] + endpoints[e].pricePerCall
                /\ balanceOf'[payments'[p].buyer]
                      = balanceOf[payments'[p].buyer] - endpoints[e].pricePerCall
       /\ \A p \in Opened : payments'[p].amount = payments[p].amount
    ]_vars

\* A payment still in flight whose listing now asks another price.
C10_Witness ==
    \E p \in Opened :
        /\ InFlight(p)
        /\ payments[p].amount # endpoints[payments[p].endpointId].pricePerCall

\* C17: withdraw succeeds exactly when 0 < amount <= bond.amount,
\* now >= lockedUntil and activePayments = 0; it then takes exactly amount
\* off the bond and pays it to the caller.  Otherwise it is rejected, in the
\* order the vault checks: InsufficientBond for more than the bond,
\* BondLocked before lockedUntil, ActivePaymentsExist while the counter is
\* positive.
C17_Gate ==
    \A c \in Users, a \in WithdrawAmounts :
        LET bond == bonds[c] IN
        /\ ENABLED Withdraw(c, a) <=>
              (0 < a /\ a <= bond.amount /\ now >= bond.lockedUntil /\ bond.activePayments = 0)
        /\ (now < bond.lockedUntil \/ bond.activePayments > 0 \/ a > bond.amount)
              => WithdrawErr(c, a) # "ok"
        /\ (a > 0 /\ a > bond.amount) => WithdrawErr(c, a) = "InsufficientBond"
        /\ (a > 0 /\ a <= bond.amount /\ now < bond.lockedUntil)
              => WithdrawErr(c, a) = "BondLocked"
        /\ (a > 0 /\ a <= bond.amount /\ now >= bond.lockedUntil /\ bond.activePayments > 0)
              => WithdrawErr(c, a) = "ActivePaymentsExist"

C17_Withdraw ==
    /\ []C17_Gate
    /\ [][\A c \in Users, a \in WithdrawAmounts : Withdraw(c, a) =>
            /\ bonds'[c] = [bonds[c] EXCEPT !.amount = bonds[c].amount - a]
            /\ balanceOf'[c] = balanceOf[c] + a
            /\ balanceOf'[BondVault] = balanceOf[BondVault] - a
            /\ \A o \in Users \ {c} : bonds'[o] = bonds[o]
        ]_vars
    /\ [][\A c \in Users :
            (balanceOf'[c] > balanceOf[c] /\ balanceOf'[BondVault] < balanceOf[BondVault]
                /\ bonds'[c].totalSlashed = bonds[c].totalSlashed /\ c # Owner) =>
                /\ now >= bonds[c].lockedUntil
                /\ bonds[c].activePayments = 0
                /\ balanceOf'[c] - balanceOf[c] = bonds[c].amount - bonds'[c].amount
        ]_vars

\* A seller who bonded 101, waited out the lock and withdrew 100 of it.
C17_Witness ==
    \E s \in BondDepositors :
        /\ bonds[s].lockedUntil > 0
        /\ now >= bonds[s].lockedUntil
        /\ bonds[s].amount = 1
        /\ balanceOf[s] = BondMint - 1

\* C18: slash is open to the vault's escrowVault and to the owner only; with
\* slashBps > 5000 it is rejected with SlashExceedsMax.  A slash removes
\* exactly floor(bond.amount * slashBps / 10000) from the bond, adds it to
\* totalSlashed, pays it to the owner and appends one audit record; it never
\* takes more than half of the bond, and no bond is ever negative.
C18_Gate ==
    /\ \A u \in Users : bonds[u].amount >= 0
    /\ \A c \in BondCallers, s \in BondDepositors, bps \in SlashBpsInputs :
          /\ (c # bondEscrow /\ c # Owner) => SlashErr(c, s, bps) = "NotAuthorized"
          /\ ((c = bondEscrow \/ c = Owner) /\ bps > 5000)
                => SlashErr(c, s, bps) = "SlashExceedsMax"
          /\ ((c = bondEscrow \/ c = Owner) /\ bps <= 5000) => SlashErr(c, s, bps) = "ok"
          /\ \A p \in PaymentIdSpace, r \in SlashReasons :
                ENABLED Slash(c, s, p, bps, r) =>
                    ((c = bondEscrow \/ c = Owner) /\ bps <= 5000)

C18_Slash ==
    /\ []C18_Gate
    /\ [][\A c \in BondCallers, s \in BondDepositors, p \in PaymentIdSpace,
             bps \in SlashBpsInputs, r \in SlashReasons :
            Slash(c, s, p, bps, r) =>
                LET removed == (bonds[s].amount * bps) \div 10000 IN
                /\ bonds'[s] = [bonds[s] EXCEPT !.amount = bonds[s].amount - removed,
                                                !.totalSlashed = bonds[s].totalSlashed + removed]
                /\ 2 * removed <= bonds[s].amount
                /\ balanceOf'[Owner] = balanceOf[Owner] + removed
                /\ balanceOf'[BondVault] = balanceOf[BondVault] - removed
                /\ slashRecords'[s] = Append(slashRecords[s],
                       [paymentId |-> p, amount |-> removed, timestamp |-> now, reason |-> r])
        ]_vars
    /\ [][\A s \in Users :
            (bonds'[s].totalSlashed # bonds[s].totalSlashed
                \/ slashRecords'[s] # slashRecords[s]) =>
                /\ Len(slashRecords'[s]) = Len(slashRecords[s]) + 1
                /\ 2 * (bonds[s].amount - bonds'[s].amount) <= bonds[s].amount
                /\ bonds'[s].totalSlashed - bonds[s].totalSlashed
                      = bonds[s].amount - bonds'[s].amount
        ]_vars

\* A bond of 101 slashed by 5000 bps: 50 removed (50.5 rounded down), 51
\* left, the owner paid 50, one audit record.
C18_Witness ==
    \E s \in BondDepositors :
        /\ bonds[s].amount = 51
        /\ bonds[s].totalSlashed = 50
        /\ balanceOf[Owner] = 50
        /\ Len(slashRecords[s]) = 1
        /\ slashRecords[s][1].amount = 50

\* C19: deposit is rejected for amount 0; a deposit adds exactly amount to
\* the caller's bond and sets lockedUntil = now + 7 days for the whole bond.
\* lockedUntil changes in no other step, and no withdrawal is possible
\* before it, so nothing leaves by withdrawal within 7 days of a deposit.
C19_Gate ==
    \A c \in Users :
        /\ DepositErr(c, 0) = "ZeroAmount"
        /\ ~ENABLED Deposit(c, 0)
        /\ \A a \in WithdrawAmounts : now < bonds[c].lockedUntil => ~ENABLED Withdraw(c, a)

C19_Deposit ==
    /\ []C19_Gate
    /\ [][\A c \in Users, a \in DepositAmounts : Deposit(c, a) =>
            /\ a > 0
            /\ bonds'[c] = [bonds[c] EXCEPT !.amount = bonds[c].amount + a,
                                            !.lockedUntil = now + 604800]
            /\ balanceOf'[c] = balanceOf[c] - a
            /\ balanceOf'[BondVault] = balanceOf[BondVault] + a
        ]_vars
    /\ [][\A c \in Users :
            /\ bonds'[c].lockedUntil # bonds[c].lockedUntil =>
                  \E a \in DepositAmounts : Deposit(c, a)
            /\ (bonds'[c].amount < bonds[c].amount
                   /\ bonds'[c].totalSlashed = bonds[c].totalSlashed)
                  => now >= bonds[c].lockedUntil
        ]_vars

\* A second deposit made after the first one's lock had run out: the whole
\* bond, old funds included, is locked for 7 days from now.
C19_Witness ==
    \E s \in BondDepositors :
        /\ bonds[s].amount >= 200
        /\ now >= StartTime + MIN_LOCK_PERIOD
        /\ bonds[s].lockedUntil = now + MIN_LOCK_PERIOD
        /\ \A a \in WithdrawAmounts : WithdrawErr(s, a) # "ok"

\* C20: write-once receipts.  Once a receipt is stored for a paymentId every
\* further storeReceipt for it is rejected, for the escrowVault and the owner
\* with ReceiptAlreadyExists; a successful store writes the arguments and
\* the current time and appends the id once; no step changes a stored
\* receipt or removes an id from receiptIds.
C20_Gate ==
    \A p \in PaymentIdSpace :
        /\ ReceiptExists(p) =>
              \A c \in StoreCallers :
                  /\ (c = receiptEscrow \/ c = Owner)
                        => StoreReceiptErr(c, p) = "ReceiptAlreadyExists"
                  /\ \A e \in EndpointIdSpace, b \in Buyers, sl \in Sellers, dh \in Hashes,
                        mh \in MetaHashes, a \in ReceiptAmounts :
                        ~ENABLED StoreReceipt(c, p, e, b, sl, dh, mh, a)
        /\ ReceiptExists(p) <=> (\E i \in 1 .. Len(receiptIds) : receiptIds[i] = p)
        /\ \A i, j \in 1 .. Len(receiptIds) : receiptIds[i] = receiptIds[j] => i = j

C20_WriteOnce ==
    /\ []C20_Gate
    /\ [][\A q \in PaymentIdSpace : ReceiptExists(q) => receipts'[q] = receipts[q]]_vars
    /\ [][/\ Len(receiptIds') >= Len(receiptIds)
          /\ SubSeq(receiptIds', 1, Len(receiptIds)) = receiptIds]_vars
    /\ [][\A c \in StoreCallers, p \in PaymentIdSpace, e \in EndpointIdSpace, b \in Buyers,
             sl \in Sellers, dh \in Hashes, mh \in MetaHashes, a \in ReceiptAmounts :
            StoreReceipt(c, p, e, b, sl, dh, mh, a) =>
                /\ ~ReceiptExists(p)
                /\ receipts'[p] = [paymentId |-> p, endpointId |-> e, buyer |-> b,
                                   seller |-> sl, deliveryHash |-> dh,
                                   responseMetaHash |-> mh, timestamp |-> now,
                                   amount |-> a]
                /\ receiptIds' = Append(receiptIds, p)
        ]_vars

\* A receipt stored earlier, which neither the owner nor the wired
\* escrowVault can store again.
C20_Witness ==
    \E p \in PaymentIdSpace :
        /\ ReceiptExists(p)
        /\ now > receipts[p].timestamp
        /\ receiptEscrow = OtherEscrow
        /\ StoreReceiptErr(Owner, p) = "ReceiptAlreadyExists"
        /\ StoreReceiptErr(OtherEscrow, p) = "ReceiptAlreadyExists"

\* C11: the dispute window of a payment is locked when it is opened.  The
\* window a delivery grants is the listing's disputeWindowSeconds, so the
\* claim says that from the opening to the delivery of a payment no step,
\* updateEndpoint included, changes the window its delivery will grant.
C11_WindowLocked ==
    [][\A p \in Opened :
        (payments[p].status = "Pending" /\ payments'[p].status \in {"Pending", "Delivered"}) =>
            /\ endpoints'[payments[p].endpointId].disputeWindowSeconds
                  = endpoints[payments[p].endpointId].disputeWindowSeconds
            /\ payments'[p].status = "Delivered" =>
                  payments'[p].disputeWindowEnds - payments'[p].deliveredAt
                      = endpoints[payments[p].endpointId].disputeWindowSeconds
    ]_vars

\* C14: every payment that has been delivered has a receipt in ReceiptStore
\* carrying its endpointId, buyer, seller, hashes and amount, and a receipt
\* exists only for a payment that has been delivered.
C14_ReceiptOnDelivery ==
    \A p \in 1 .. MaxPayments :
        /\ (Exists(p) /\ payments[p].deliveredAt # 0) =>
              /\ ReceiptExists(p)
              /\ receipts[p].endpointId = payments[p].endpointId
              /\ receipts[p].buyer = payments[p].buyer
              /\ receipts[p].seller = payments[p].seller
              /\ receipts[p].deliveryHash = payments[p].deliveryHash
              /\ receipts[p].responseMetaHash = payments[p].responseMetaHash
              /\ receipts[p].amount = payments[p].amount
        /\ ReceiptExists(p) => (Exists(p) /\ payments[p].deliveredAt # 0)

\* C15: every settlement outcome reaches the ReputationEngine in the step
\* that produces it: a delivery adds 1 to the seller's totalDeliveries and
\* successfulDeliveries, a timeout refund adds 1 to totalRefunds, a dispute
\* resolved for the buyer adds 1 to the seller's totalDisputes and
\* disputesLost and to the buyer's totalDisputes and disputesWon.
C15_OutcomesReported ==
    [][\A p \in Opened :
        LET sl == payments[p].seller
            b == payments[p].buyer
        IN
        /\ StatusStep(p, "Pending", "Delivered") =>
              /\ sellerScores'[sl].totalDeliveries = sellerScores[sl].totalDeliveries + 1
              /\ sellerScores'[sl].successfulDeliveries
                    = sellerScores[sl].successfulDeliveries + 1
        /\ StatusStep(p, "Pending", "Refunded") =>
              sellerScores'[sl].totalRefunds = sellerScores[sl].totalRefunds + 1
        /\ StatusStep(p, "Disputed", "Refunded") =>
              /\ sellerScores'[sl].totalDisputes = sellerScores[sl].totalDisputes + 1
              /\ sellerScores'[sl].disputesLost = sellerScores[sl].disputesLost + 1
              /\ buyerScores'[b].totalDisputes = buyerScores[b].totalDisputes + 1
              /\ buyerScores'[b].disputesWon = buyerScores[b].disputesWon + 1
    ]_vars

\* C16: for every seller the vault's activePayments counter equals the
\* number of that seller's payments that are Pending, Delivered or Disputed.
C16_ActivePaymentsConsistent ==
    \A s \in Users :
        bonds[s].activePayments
            = Cardinality({p \in Opened : payments[p].seller = s /\ InFlight(p)})

\* C13: no payment is stuck.  A Pending payment past its delivery deadline
\* can be refunded by any caller and a Delivered payment at or past the end
\* of its dispute window can be released by any caller; a Pending payment
\* that is never delivered becomes refundable, a Delivered payment that is
\* never disputed becomes releasable, and every opened payment eventually
\* is Released or Refunded.
C13_Triggers ==
    \A p \in Opened, c \in Users :
        /\ (payments[p].status = "Pending" /\ now > payments[p].openedAt + deliveryDeadline)
              => ENABLED Refund(c, p)
        /\ (payments[p].status = "Delivered" /\ now >= payments[p].disputeWindowEnds)
              => ENABLED Release(c, p)

C13_Liveness ==
    /\ []C13_Triggers
    /\ \A p \in 1 .. MaxPayments :
          /\ (Exists(p) /\ payments[p].status = "Pending")
                ~> (payments[p].status # "Pending" \/ \A c \in Users : ENABLED Refund(c, p))
          /\ (Exists(p) /\ payments[p].status = "Delivered")
                ~> (payments[p].status # "Delivered" \/ \A c \in Users : ENABLED Release(c, p))
          /\ Exists(p) ~> Terminal(p)

\* C12: a call that fails changes nothing.  A call whose checks name an
\* error is no step of the system, in any of the five contracts; a rejection
\* by Registry.incrementCalls rejects the markDelivered that made the call,
\* with NotAuthorized when the Registry does not authorise this EscrowVault,
\* and the payment stays Pending.  What one call writes is written together:
\* a delivery and the listing's call count, a new payment with its indices
\* and the tokens it escrows, a bond and the tokens behind it, a receipt and
\* its index.
C12_Rejected ==
    /\ \A c \in Users, p \in PaymentIdSpace :
          /\ \A e \in EndpointIdSpace, mp \in Prices, n \in NoteHashes :
                OpenPaymentErr(c, e, mp) # "ok" => ~ENABLED OpenPayment(c, e, mp, n)
          /\ \A dh \in DeliveryHashes, mh \in MetaHashes, sig \in SigInputs :
                /\ MarkDeliveredErr(p, dh, mh, sig) # "ok"
                      => ~ENABLED MarkDeliveredWithSellerSig(c, p, dh, mh, sig)
                /\ IncrementCallsErr(Escrow, payments[p].endpointId) # "ok"
                      => ~ENABLED MarkDeliveredWithSellerSig(c, p, dh, mh, sig)
          /\ \A dh \in DeliveryHashes, mh \in MetaHashes :
                (/\ Exists(p)
                 /\ payments[p].status = "Pending"
                 /\ now <= payments[p].openedAt + deliveryDeadline
                 /\ registryEscrow # Escrow)
                  => MarkDeliveredErr(p, dh, mh, SellerSig(p, dh, mh)) = "NotAuthorized"
          /\ \A ev \in EvidenceHashes : DisputeErr(c, p) # "ok" => ~ENABLED Dispute(c, p, ev)
          /\ ReleaseErr(p) # "ok" => ~ENABLED Release(c, p)
          /\ RefundErr(p) # "ok" => ~ENABLED Refund(c, p)
          /\ \A bw \in BOOLEAN :
                ResolveDisputeErr(c, p) # "ok" => ~ENABLED ResolveDispute(c, p, bw)
          /\ WithdrawProtocolFeesErr # "ok" => ~ENABLED WithdrawProtocolFees(c)
    /\ \A c \in Users, e \in EndpointIdSpace, u \in URIs, pr \in Prices, w \in Windows :
          /\ \A cat \in Categories, rb \in Bonds :
                RegisterEndpointErr(u, pr, w) # "ok" => ~ENABLED RegisterEndpoint(c, u, pr, cat, w, rb)
          /\ UpdateEndpointErr(c, e, u, pr, w) # "ok" => ~ENABLED UpdateEndpoint(c, e, u, pr, w)
          /\ DeactivateEndpointErr(c, e) # "ok" => ~ENABLED DeactivateEndpoint(c, e)
          /\ ReactivateEndpointErr(c, e) # "ok" => ~ENABLED ReactivateEndpoint(c, e)
    /\ \A c \in BondCallers, s \in Users :
          /\ \A a \in DepositAmounts : DepositErr(s, a) # "ok" => ~ENABLED Deposit(s, a)
          /\ \A a \in WithdrawAmounts : WithdrawErr(s, a) # "ok" => ~ENABLED Withdraw(s, a)
          /\ \A p \in PaymentIdSpace, bps \in SlashBpsInputs, r \in SlashReasons :
                SlashErr(c, s, bps) # "ok" => ~ENABLED Slash(c, s, p, bps, r)
          /\ ActivePaymentsErr(c) # "ok" =>
                /\ ~ENABLED IncrementActivePayments(c, s)
                /\ ~ENABLED DecrementActivePayments(c, s)
          /\ \A v \in BondVaultInputs :
                BondSetEscrowVaultErr(c, v) # "ok" => ~ENABLED BondSetEscrowVault(c, v)
    /\ \A c \in StoreCallers, p \in PaymentIdSpace :
          /\ \A e \in EndpointIdSpace, b \in Buyers, sl \in Sellers, dh \in Hashes,
                mh \in MetaHashes, a \in ReceiptAmounts :
                StoreReceiptErr(c, p) # "ok" => ~ENABLED StoreReceipt(c, p, e, b, sl, dh, mh, a)
          /\ \A v \in StoreVaultInputs :
                ReceiptSetEscrowVaultErr(c, v) # "ok" => ~ENABLED ReceiptSetEscrowVault(c, v)
    /\ \A c \in ScoreCallers, p \in PaymentIdSpace, sl \in ScoredSellers, b \in ScoredBuyers :
          /\ OnlyEscrowOrOwnerErr(c) # "ok" =>
                /\ ~ENABLED RecordDelivery(c, p, sl, b)
                /\ ~ENABLED RecordRefund(c, p, sl, b)
                /\ \A bw \in BOOLEAN : ~ENABLED RecordDispute(c, p, sl, b, bw)
          /\ \A v \in ScoreVaultInputs :
                ReputationSetEscrowVaultErr(c, v) # "ok" => ~ENABLED ReputationSetEscrowVault(c, v)

C21_Cap ==
    /\ protocolFeeBps <= MAX_PROTOCOL_FEE_BPS
    /\ \A f \in FeeInputs : f > MAX_PROTOCOL_FEE_BPS =>
          /\ SetProtocolFeeErr(Owner, f) = "FeeTooHigh"
          /\ \A c \in Users : ~ENABLED SetProtocolFee(c, f)

C21_FeeCap ==
    /\ []C21_Cap
    /\ [][\A p \in Opened :
            (payments'[p].status = "Released" /\ payments[p].status # "Released") =>
                LET amount == payments[p].amount
                    accrued == accumulatedFees' - accumulatedFees
                    toSeller == balanceOf'[payments[p].seller] - balanceOf[payments[p].seller]
                IN
                /\ accrued * 100 <= amount * 5
                /\ toSeller * 100 >= amount * 95
        ]_vars

\* A dispute resolved for the seller at the highest fee the cap allows: of
\* 130 the protocol keeps 6 and the seller gets 124.
C21_Witness ==
    \E p \in Opened :
        /\ payments[p].status = "Released"
        /\ payments[p].evidenceHash # ZeroHash
        /\ protocolFeeBps = MAX_PROTOCOL_FEE_BPS
        /\ payments[p].amount = 130
        /\ accumulatedFees = 6
        /\ balanceOf[payments[p].seller] = 124

\* C22: the slippage guard.  openPayment can succeed only on a listing that
\* exists, is active and asks at most maxPrice; on such a listing a price
\* above maxPrice is rejected with InvalidAmount and an allowance below the
\* price with InsufficientAllowance, and a rejected call is no step.  A
\* successful call creates exactly one payment, under an id not used
\* before: Pending, of the caller and the listing's seller, for the
\* listing's price whatever maxPrice was, appended to paymentIds and to the
\* buyer's and the seller's lists, the price moving from the caller into
\* escrow; no other payment changes.
C22_Gate ==
    \A c \in Users, e \in EndpointIdSpace, mp \in Prices, n \in NoteHashes :
        LET endpoint == endpoints[e] IN
        /\ ENABLED OpenPayment(c, e, mp, n) =>
              /\ endpoint.seller # ZeroAddress
              /\ endpoint.active
              /\ endpoint.pricePerCall <= mp
              /\ allowance[c] >= endpoint.pricePerCall
        /\ (IsValidEndpoint(e) /\ endpoint.pricePerCall > mp)
              => OpenPaymentErr(c, e, mp) = "InvalidAmount"
        /\ (IsValidEndpoint(e) /\ endpoint.pricePerCall <= mp
               /\ allowance[c] < endpoint.pricePerCall)
              => OpenPaymentErr(c, e, mp) = "InsufficientAllowance"
        /\ OpenPaymentErr(c, e, mp) # "ok" => ~ENABLED OpenPayment(c, e, mp, n)

C23_SignedEarlier ==
    \A p \in Opened, c \in Users, dh \in DeliveryHashes, mh \in MetaHashes :
        (/\ payments[p].status = "Pending"
         /\ now <= payments[p].openedAt + deliveryDeadline
         /\ IncrementCallsErr(Escrow, payments[p].endpointId) = "ok")
          => \A t \in {payments[p].openedAt, now} :
                ENABLED MarkDeliveredWithSellerSig(c, p, dh, mh,
                    Sign(payments[p].seller, DeliveryDigest(Escrow, p, dh, mh, t)))

\* C24: a delivery proof cannot be replayed.  A signature payment.seller
\* made over (verifying contract, paymentId, deliveryHash, responseMetaHash)
\* is accepted by markDelivered only in a call on this EscrowVault with that
\* paymentId and those two hashes: on a Pending payment within its deadline
\* the seller's signature for another EscrowVault, another payment id or
\* other hashes fails with InvalidSignature, and every delivery step stores
\* the hashes the seller signed for that payment on this EscrowVault.
C24_Gate ==
    \A p \in Opened, c \in Users, dh \in DeliveryHashes, mh \in MetaHashes,
       vc \in {Escrow, OtherEscrow}, q \in PaymentIdSpace, dh2 \in Hashes,
       mh2 \in Hashes \cup MetaHashes :
        LET sig == Sign(payments[p].seller, DeliveryDigest(vc, q, dh2, mh2, now)) IN
        (vc # Escrow \/ q # p \/ dh2 # dh \/ mh2 # mh) =>
            /\ ~ENABLED MarkDeliveredWithSellerSig(c, p, dh, mh, sig)
            /\ (payments[p].status = "Pending" /\ now <= payments[p].openedAt + deliveryDeadline)
                  => MarkDeliveredErr(p, dh, mh, sig) = "InvalidSignature"

C25_Count ==
    /\ registryEscrow \in {ZeroAddress, Escrow}
    /\ \A e \in 1 .. MaxEndpoints :
          /\ endpoints[e].totalCalls
                = Cardinality({p \in Opened : payments[p].endpointId = e
                                                /\ payments[p].deliveredAt # 0})
          /\ \A c \in Users \cup {Escrow, OtherEscrow} :
                c # registryEscrow => IncrementCallsErr(c, e) = "NotAuthorized"

C26_Gate ==
    \A e \in 1 .. MaxEndpoints, c \in Users :
        LET endpoint == endpoints[e] IN
        endpoint.seller # ZeroAddress =>
            /\ ~endpoint.active =>
                  /\ \A mp \in Prices, n \in NoteHashes :
                        /\ OpenPaymentErr(c, e, mp) = "InvalidEndpoint"
                        /\ ~ENABLED OpenPayment(c, e, mp, n)
                  /\ DeactivateEndpointErr(endpoint.seller, e) = "EndpointNotActive"
                  /\ \A p \in Opened, dh \in DeliveryHashes, mh \in MetaHashes :
                        (/\ payments[p].endpointId = e
                         /\ payments[p].status = "Pending"
                         /\ now <= payments[p].openedAt + deliveryDeadline
                         /\ registryEscrow = Escrow)
                          => ENABLED MarkDeliveredWithSellerSig(c, p, dh, mh, SellerSig(p, dh, mh))
            /\ endpoint.active =>
                  ReactivateEndpointErr(endpoint.seller, e) = "EndpointAlreadyActive"
            /\ c # endpoint.seller =>
                  /\ DeactivateEndpointErr(c, e) = "NotEndpointOwner"
                  /\ ReactivateEndpointErr(c, e) = "NotEndpointOwner"
                  /\ ~ENABLED DeactivateEndpoint(c, e)
                  /\ ~ENABLED ReactivateEndpoint(c, e)

C26_Deactivation ==
    /\ []C26_Gate
    /\ [][\A e \in 1 .. MaxEndpoints :
            endpoints'[e].active # endpoints[e].active =>
                \/ endpoints[e].seller = ZeroAddress
                \/ /\ endpoints' = [endpoints EXCEPT ![e].active = ~endpoints[e].active]
                   /\ UNCHANGED <<now, endpointIds, sellerEndpoints, endpointCounter,
                                  registryEscrow, paymentVars, adminVars, accumulatedFees,
                                  tokenVars, peripheryVars>>
                   /\ \A p \in Opened, c \in Users :
                         /\ \A dh \in DeliveryHashes, mh \in MetaHashes, sig \in SigInputs :
                               MarkDeliveredErr(p, dh, mh, sig)' = MarkDeliveredErr(p, dh, mh, sig)
                         /\ DisputeErr(c, p)' = DisputeErr(c, p)
                         /\ ReleaseErr(p)' = ReleaseErr(p)
                         /\ RefundErr(p)' = RefundErr(p)
                         /\ ResolveDisputeErr(c, p)' = ResolveDisputeErr(c, p)
        ]_vars

\* A Pending payment on a listing deactivated after the payment was opened:
\* a new open is refused, the seller's delivery is not.
C26_Witness ==
    \E p \in Opened, dh \in DeliveryHashes, mh \in MetaHashes :
        /\ payments[p].status = "Pending"
        /\ ~endpoints[payments[p].endpointId].active
        /\ OpenPaymentErr(payments[p].buyer, payments[p].endpointId, 130) = "InvalidEndpoint"
        /\ MarkDeliveredErr(p, dh, mh, SellerSig(p, dh, mh)) = "ok"

\* C27: the composite scores are bounded.  After any recorded deliveries,
\* disputes and refunds the seller score and the buyer score are defined
\* (no subtraction below zero: successfulDeliveries <= totalDeliveries and
\* disputesWon <= totalDisputes) and lie in 0 .. 10000; the seller score is
\* 0 while totalDeliveries is 0 and the buyer score is 0 while totalPayments
\* is 0.
C27_ScoresBounded ==
    \A u \in Users :
        LET ss == sellerScores[u]
            bs == buyerScores[u]
        IN
        /\ ss.successfulDeliveries <= ss.totalDeliveries
        /\ bs.disputesWon <= bs.totalDisputes
        /\ GetSellerReputationScore(ss) \in 0 .. BPS_DENOMINATOR
        /\ GetBuyerReputationScore(bs) \in 0 .. BPS_DENOMINATOR
        /\ ss.totalDeliveries = 0 => GetSellerReputationScore(ss) = 0
        /\ bs.totalPayments = 0 => GetBuyerReputationScore(bs) = 0

\* A seller with one delivery and one lost dispute, score 7000, facing a
\* buyer with one payment and one dispute won.
C27_Witness ==
    \E sl \in ScoredSellers, b \in ScoredBuyers :
        /\ sellerScores[sl].totalDeliveries = 1
        /\ sellerScores[sl].disputesLost = 1
        /\ GetSellerReputationScore(sellerScores[sl]) = 7000
        /\ buyerScores[b].totalPayments = 1
        /\ buyerScores[b].disputesWon = 1
        /\ GetBuyerReputationScore(buyerScores[b]) = 8020

\* C28: the engine tracks volume.  Every recorded delivery adds the
\* payment's amount, which is positive, to the seller's totalVolumeUSD6, so
\* a seller with a recorded delivery has a positive volume and a positive
\* volume term in the score.
C28_VolumeTracked ==
    /\ [](\A sl \in Users :
            sellerScores[sl].successfulDeliveries > 0 => sellerScores[sl].totalVolumeUSD6 > 0)
    /\ [][\A sl \in Users :
            sellerScores'[sl].successfulDeliveries > sellerScores[sl].successfulDeliveries =>
                sellerScores'[sl].totalVolumeUSD6 > sellerScores[sl].totalVolumeUSD6
        ]_vars

\* The ledger with an owner who may name any nonzero address as the fee
\* recipient, the vault's own address included.
SolvencyRecipients == {Escrow}

SolvencyNext ==
    \/ Next
    \/ \E c \in Users, r \in SolvencyRecipients : SetFeeRecipient(c, r)

SolvencySpec == Init /\ [][SolvencyNext]_vars

RECURSIVE SumAmounts(_)
SumAmounts(ps) ==
    IF ps = {} THEN 0
    ELSE LET p == CHOOSE x \in ps : TRUE
         IN payments[p].amount + SumAmounts(ps \ {p})

\* What the vault owes: the amounts of the payments that are Pending,
\* Delivered or Disputed, plus the fees accrued and not yet withdrawn.
EscrowOwed == SumAmounts({p \in 1 .. MaxPayments : InFlight(p)}) + accumulatedFees

\* C29: escrow solvency.  In every reachable state the vault's token balance
\* equals the sum of the amounts of the payments that are Pending, Delivered
\* or Disputed plus accumulatedFees, and a withdrawProtocolFees step pays
\* exactly accumulatedFees to feeRecipient and resets accumulatedFees to 0.
C29_Solvency ==
    /\ [](balanceOf[Escrow] = EscrowOwed)
    /\ [][\A c \in Users : WithdrawProtocolFees(c) =>
            /\ accumulatedFees' = 0
            /\ balanceOf' = Transfer(balanceOf, Escrow, feeRecipient, accumulatedFees)
            /\ payments' = payments
        ]_vars

\* C30: the buyer's right to dispute and the release trigger never overlap.
\* For every Delivered payment, at no clock value can both a dispute by the
\* buyer and a release by some caller succeed.
C30_NoOverlap ==
    \A p \in Opened :
        payments[p].status = "Delivered" =>
            ~ /\ \E ev \in EvidenceHashes : ENABLED Dispute(payments[p].buyer, p, ev)
              /\ \E c \in Users : ENABLED Release(c, p)

\* C31: a passed delivery deadline is permanent.  Once refund can succeed
\* for a Pending payment, no step of the system, a setDeliveryDeadline by
\* the owner included, leads to a state where markDelivered succeeds for
\* it; and in no state can both markDelivered and refund succeed for the
\* same payment.
C31_DeadlinePermanent ==
    /\ [](\A p \in Opened, dh \in DeliveryHashes, mh \in MetaHashes :
            ~ /\ RefundErr(p) = "ok"
              /\ MarkDeliveredErr(p, dh, mh, SellerSig(p, dh, mh)) = "ok")
    /\ [][\A p \in Opened, dh \in DeliveryHashes, mh \in MetaHashes :
            RefundErr(p) = "ok" =>
                MarkDeliveredErr(p, dh, mh, SellerSig(p, dh, mh))' # "ok"
        ]_vars

\* C32: specific error kinds on open.  openPayment against an endpoint id
\* that was never registered fails with InvalidEndpoint, and against a
\* registered endpoint that is deactivated it fails with EndpointNotActive.
C32_OpenErrorKinds ==
    \A b \in Buyers, e \in EndpointIdSpace, mp \in Prices :
        /\ endpoints[e].seller = ZeroAddress =>
                OpenPaymentErr(b, e, mp) = "InvalidEndpoint"
        /\ (endpoints[e].seller # ZeroAddress /\ ~endpoints[e].active) =>
                OpenPaymentErr(b, e, mp) = "EndpointNotActive"

\* The SellerBondVault with two sellers bonding side by side: each is
\* funded, deposits, is slashed by the owner and withdraws after the lock.
PoolDepositors == {"seller", "carol"}
PoolDeposits == {100}
PoolWithdrawals == {50}
PoolSlashBps == {MAX_SLASH_BPS}
PoolPayments == {1}

PoolTimeGates ==
    { t \in UNION { {bonds[s].lockedUntil} : s \in PoolDepositors } :
        t <= StartTime + MaxLockPeriods * MIN_LOCK_PERIOD }

BondPoolNext ==
    \/ \E t \in PoolTimeGates : AdvanceTime(t)
    \/ \E s \in PoolDepositors, a \in PoolDeposits : Mint(s, a)
    \/ \E s \in PoolDepositors : BondApprove(s, BondMint)
    \/ \E s \in PoolDepositors, a \in PoolDeposits : Deposit(s, a)
    \/ \E s \in PoolDepositors, a \in PoolWithdrawals : Withdraw(s, a)
    \/ \E s \in PoolDepositors, p \in PoolPayments, bps \in PoolSlashBps, r \in SlashReasons :
          Slash(Owner, s, p, bps, r)

BondPoolSpec == Init /\ [][BondPoolNext]_vars

RECURSIVE SumBonds(_)
SumBonds(ss) ==
    IF ss = {} THEN 0
    ELSE LET s == CHOOSE x \in ss : TRUE
         IN bonds[s].amount + SumBonds(ss \ {s})

RECURSIVE SumSlashed(_)
SumSlashed(recs) ==
    IF recs = <<>> THEN 0 ELSE Head(recs).amount + SumSlashed(Tail(recs))

\* What a seller has put in and not taken out: the bond plus what was
\* slashed from it.
BondCredit(s) == bonds[s].amount + bonds[s].totalSlashed

\* C33: bond vault solvency.  The vault's token balance equals the sum of
\* bond.amount over all sellers; each seller's totalSlashed equals the sum
\* of the amounts in the seller's slash records and never decreases; and
\* bond.amount + totalSlashed changes only by a deposit of the seller, which
\* adds the amount deposited, and by a withdrawal of the seller, which
\* subtracts the amount withdrawn, so that bond.amount is total deposited
\* minus total withdrawn minus totalSlashed.
C33_BondSolvency ==
    /\ [](/\ balanceOf[BondVault] = SumBonds(Users)
          /\ \A s \in Users : bonds[s].totalSlashed = SumSlashed(slashRecords[s]))
    /\ [][/\ \A s \in Users : bonds'[s].totalSlashed >= bonds[s].totalSlashed
          /\ \A s \in Users, a \in DepositAmounts \cup PoolDeposits :
                Deposit(s, a) => BondCredit(s)' = BondCredit(s) + a
          /\ \A s \in Users, a \in WithdrawAmounts \cup PoolWithdrawals :
                Withdraw(s, a) => BondCredit(s)' = BondCredit(s) - a
          /\ \A s \in Users :
                BondCredit(s)' # BondCredit(s) =>
                    \/ \E a \in DepositAmounts \cup PoolDeposits : Deposit(s, a)
                    \/ \E a \in WithdrawAmounts \cup PoolWithdrawals : Withdraw(s, a)
        ]_vars

\* Two bonded sellers, one of them slashed twice by half (100, then 50, then
\* 25 left) and the other untouched: the vault holds 125.
C33_Witness ==
    /\ bonds["seller"].amount = 25
    /\ bonds["seller"].totalSlashed = 75
    /\ Len(slashRecords["seller"]) = 2
    /\ bonds["carol"].amount = 100
    /\ balanceOf[BondVault] = 125

\* C34: verifyDeliveryHash(paymentId, h) is true only if a receipt has been
\* stored for paymentId and its deliveryHash is h; for a paymentId without a
\* receipt it is false for every h, the all-zero hash included, in
\* agreement with receiptExists and getReceipt.
C34_VerifyOnlyStored ==
    \A p \in PaymentIdSpace, h \in Hashes :
        /\ VerifyDeliveryHash(p, h) =>
                /\ ReceiptExists(p)
                /\ GetReceiptErr(p) = "ok"
                /\ receipts[p].deliveryHash = h
        /\ ~ReceiptExists(p) => ~VerifyDeliveryHash(p, h)

\* The ReputationEngine with a crowded board.  MAX_LEADERBOARD sellers have
\* had their first event recorded, in the order of their numbers, so that
\* the board holds them in that order; the last of them may still be
\* missing.  All have one successful delivery except the sellers in the
\* slots of BoardSlots, whose history is any of Histories.  Their events
\* were recorded by the owner at StartTime with the owner's address as the
\* buyer.  From there the owner records events for two newcomers and for
\* the first member of the board.
CrowdSeller(k) == "crowd" \o ToString(k)
Crowd == {CrowdSeller(k) : k \in 1 .. MAX_LEADERBOARD}
BoardSlots == {1, MAX_LEADERBOARD}
BoardSizes == {MAX_LEADERBOARD - 1, MAX_LEADERBOARD}
Histories == {"delivered", "refunded"}
BoardSellers == ScoredSellers \cup {CrowdSeller(1)}
BoardPayments == {1}

\* sellerScores after recordDelivery, after recordDelivery and a
\* recordDispute the buyer won, and after recordRefund.
SellerHistory(h) ==
    [totalDeliveries |-> 1,
     successfulDeliveries |-> IF h = "refunded" THEN 0 ELSE 1,
     totalDisputes |-> IF h = "disputeLost" THEN 1 ELSE 0,
     disputesLost |-> IF h = "disputeLost" THEN 1 ELSE 0,
     totalRefunds |-> IF h = "refunded" THEN 1 ELSE 0,
     totalVolumeUSD6 |-> 0,
     lastActivityAt |-> StartTime,
     registeredAt |-> StartTime]

BoardInit ==
    /\ now = StartTime
    /\ endpoints = [e \in EndpointIdSpace |-> NoEndpoint]
    /\ endpointIds = <<>>
    /\ sellerEndpoints = [u \in Users |-> <<>>]
    /\ endpointCounter = 0
    /\ registryEscrow = ZeroAddress
    /\ payments = [p \in PaymentIdSpace |-> NoPayment]
    /\ paymentIds = <<>>
    /\ buyerPayments = [u \in Users \cup {Router} |-> <<>>]
    /\ sellerPayments = [u \in Users |-> <<>>]
    /\ paymentCounter = 0
    /\ protocolFeeBps = 0
    /\ feeRecipient = Treasury
    /\ accumulatedFees = 0
    /\ deliveryDeadline = DefaultDeliveryDeadline
    /\ balanceOf = [a \in Holders |-> IF a \in Buyers THEN InitialMint ELSE 0]
    /\ allowance = [u \in Users \cup {Router} |-> 0]
    /\ bondAllowance = [u \in Users |-> 0]
    /\ bonds = [u \in Users |-> NoBond]
    /\ slashRecords = [u \in Users |-> <<>>]
    /\ bondEscrow = ZeroAddress
    /\ receipts = [p \in PaymentIdSpace |-> NoReceipt]
    /\ receiptIds = <<>>
    /\ receiptEscrow = ZeroAddress
    /\ reputationEscrow = ZeroAddress
    /\ routerAllowance = [u \in Users |-> 0]
    /\ revenueSplits = [u \in Users |-> NoSplit]
    /\ splitBalances = [u \in Users |-> 0]
    /\ \E n \in BoardSizes, hist \in [BoardSlots -> Histories] :
          LET history(k) == IF k \in BoardSlots THEN hist[k] ELSE "delivered"
              number(u) == CHOOSE k \in 1 .. MAX_LEADERBOARD : CrowdSeller(k) = u
              disputes == Cardinality({k \in BoardSlots : k <= n /\ hist[k] = "disputeLost"})
          IN
          /\ topSellers = [k \in 1 .. n |-> CrowdSeller(k)]
          /\ sellerScores = [u \in Users \cup Crowd |->
                IF u \in Crowd /\ number(u) <= n
                THEN SellerHistory(history(number(u)))
                ELSE NoSellerScore]
          /\ buyerScores = [u \in Users |->
                IF u = Owner
                THEN [totalPayments |-> n, totalDisputes |-> disputes,
                      disputesWon |-> disputes, totalSpentUSD6 |-> 0,
                      lastActivityAt |-> StartTime, registeredAt |-> StartTime]
                ELSE NoBuyerScore]

BoardNext ==
    \/ \E p \in BoardPayments, sl \in BoardSellers, b \in ScoredBuyers :
          RecordDelivery(Owner, p, sl, b)
    \/ \E p \in BoardPayments, sl \in BoardSellers, b \in ScoredBuyers, bw \in BOOLEAN :
          RecordDispute(Owner, p, sl, b, bw)
    \/ \E p \in BoardPayments, sl \in BoardSellers, b \in ScoredBuyers :
          RecordRefund(Owner, p, sl, b)

BoardSpec == BoardInit /\ [][BoardNext]_vars

OnBoard(s) == \E i \in 1 .. Len(topSellers) : topSellers[i] = s
ScoreOf(s) == GetSellerReputationScore(sellerScores[s])

\* The scores of the board's members, in board order.
BoardScores == [i \in 1 .. Len(topSellers) |-> ScoreOf(topSellers[i])]

\* The first position of a sequence of scores, at least one, that holds
\* its lowest value.
FirstLowest(sc) ==
    CHOOSE i \in 1 .. Len(sc) :
        /\ \A j \in 1 .. Len(sc) : sc[i] <= sc[j]
        /\ \A j \in 1 .. i - 1 : sc[j] # sc[i]

C35_Board ==
    /\ Len(topSellers) <= MAX_LEADERBOARD
    /\ \A i, j \in 1 .. Len(topSellers) : topSellers[i] = topSellers[j] => i = j

\* C35: the leaderboard update rule.  A record operation about a seller not
\* on the board appends the seller while the board has fewer than 50
\* members; on a full board the seller takes the place of the first
\* lowest-scoring member only if the seller's score, after the record, is
\* strictly greater than that member's, and otherwise the board is
\* unchanged.  A seller already on the board leaves it unchanged, and the
\* board never exceeds 50 sellers nor holds one twice.
C35_UpdateRule ==
    /\ []C35_Board
    /\ [][\A s \in DOMAIN sellerScores :
            sellerScores'[s] # sellerScores[s] =>
                IF OnBoard(s) THEN topSellers' = topSellers
                ELSE IF Len(topSellers) < MAX_LEADERBOARD
                     THEN topSellers' = Append(topSellers, s)
                ELSE LET sc == BoardScores
                         lowest == FirstLowest(sc)
                     IN IF ScoreOf(s)' > sc[lowest]
                        THEN topSellers' = [topSellers EXCEPT ![lowest] = s]
                        ELSE topSellers' = topSellers
        ]_vars
    /\ [][sellerScores' = sellerScores => topSellers' = topSellers]_vars

\* A full board whose first and last members tied at the lowest score, 2000:
\* a newcomer with 9000 has taken the first one's place, and a second
\* newcomer, whose 2000 only ties the last member, stays off the board.
C35_Witness ==
    /\ Len(topSellers) = MAX_LEADERBOARD
    /\ topSellers[1] = "seller"
    /\ ScoreOf("seller") = 9000
    /\ ~OnBoard(CrowdSeller(1))
    /\ ScoreOf(CrowdSeller(1)) = 2000
    /\ topSellers[MAX_LEADERBOARD] = CrowdSeller(MAX_LEADERBOARD)
    /\ ScoreOf(CrowdSeller(MAX_LEADERBOARD)) = 2000
    /\ sellerScores["carol"].totalRefunds = 1
    /\ ScoreOf("carol") = 2000
    /\ ~OnBoard("carol")

\* C36: the leaderboard holds the top sellers.  Whenever the board is full,
\* every seller with at least one recorded event who is not on the board
\* has a score no greater than the lowest score on the board.
C36_TopSellers ==
    Len(topSellers) = MAX_LEADERBOARD =>
        LET sc == BoardScores
            lowest == sc[FirstLowest(sc)]
        IN \A s \in DOMAIN sellerScores :
              (sellerScores[s].registeredAt # 0 /\ ~OnBoard(s)) => ScoreOf(s) <= lowest

\* C37: getTopSellers returns the board sorted by score, best first: for
\* any two positions i < j the seller at i scores at least as much as the
\* seller at j.
C37_Sorted ==
    \A i, j \in 1 .. Len(topSellers) :
        i < j => ScoreOf(topSellers[i]) >= ScoreOf(topSellers[j])

\* The PaymentRouter in front of the vault: a buyer pays one listing either
\* directly or through the Router, singly or in a batch, and the payment
\* runs its course; the seller splits revenue through the Router.
RouterMaxPrices == {130, 150}
RouterApprovers == Buyers \cup Sellers
BatchInputs ==
    UNION { { <<ids, prices, [i \in 1 .. n |-> "0xb1"]>> :
                ids \in [1 .. n -> EndpointIdSpace], prices \in [1 .. n -> RouterMaxPrices] } :
            n \in 1 .. MaxBatch }
SplitInputs ==
    { <<<<"carol">>, <<BPS_DENOMINATOR>>>>,
      <<<<"carol", "owner">>, <<3333, 6667>>>> }
SplitAmounts == {100}

RouterNext ==
    \/ \E t \in TimeGates : AdvanceTime(t)
    \/ \E c \in Sellers, u \in SystemURIs, pr \in SystemPrices, cat \in Categories,
          w \in SystemWindows, rb \in Bonds : RegisterEndpoint(c, u, pr, cat, w, rb)
    \/ \E v \in VaultInputs : RegistrySetEscrowVault(Owner, v)
    \/ \E b \in Buyers, a \in ApproveAmounts : Approve(b, a)
    \/ \E c \in Buyers, e \in EndpointIdSpace, mp \in SystemPrices, n \in NoteHashes :
          OpenPayment(c, e, mp, n)
    \/ \E o \in RouterApprovers, a \in ApproveAmounts : RouterApprove(o, a)
    \/ \E c \in Buyers, e \in EndpointIdSpace, mp \in RouterMaxPrices, n \in NoteHashes :
          RouteAndPay(c, e, mp, n)
    \/ \E c \in Buyers, batch \in BatchInputs :
          BatchOpenPayments(c, batch[1], batch[2], batch[3])
    \/ \E p \in PaymentIdSpace, dh \in DeliveryHashes, mh \in MetaHashes, c \in Sellers :
          MarkDeliveredWithSellerSig(c, p, dh, mh, SellerSig(p, dh, mh))
    \/ \E c \in Users, p \in PaymentIdSpace, ev \in EvidenceHashes : Dispute(c, p, ev)
    \/ \E c \in Users, p \in PaymentIdSpace : Release(c, p)
    \/ \E c \in Users, p \in PaymentIdSpace : Refund(c, p)
    \/ \E p \in PaymentIdSpace, bw \in BOOLEAN : ResolveDispute(Owner, p, bw)
    \/ \E c \in Sellers, split \in SplitInputs : SetRevenueSplit(c, split[1], split[2])
    \/ \E c \in Sellers : RemoveRevenueSplit(c)
    \/ \E c \in Sellers, sl \in Sellers, a \in SplitAmounts : ExecuteSplit(c, sl, a)
    \/ \E c \in Users : WithdrawSplitBalance(c)

RouterSpec == Init /\ [][RouterNext]_vars

RECURSIVE SumOver(_, _)
SumOver(f, ks) ==
    IF ks = {} THEN 0
    ELSE LET k == CHOOSE x \in ks : TRUE
         IN f[k] + SumOver(f, ks \ {k})

\* The Router's tokens that are not owed to split recipients.
RouterFree == balanceOf[Router] - SumOver(splitBalances, DOMAIN splitBalances)

\* c's call of routeAndPay or batchOpenPayments, as a step.
RouterCall(c) ==
    \/ \E e \in EndpointIdSpace, mp \in RouterMaxPrices, n \in NoteHashes :
          RouteAndPay(c, e, mp, n)
    \/ \E batch \in BatchInputs : BatchOpenPayments(c, batch[1], batch[2], batch[3])

\* C38: the Router charges only what is escrowed.  A routeAndPay or
\* batchOpenPayments step lowers the caller's balance by exactly the sum of
\* the amounts of the payments it opened in the vault, failed batch entries
\* costing nothing, and leaves the Router's balance beyond the sum of
\* splitBalances as it was.
C38_RouterCharges ==
    [][\A c \in Buyers :
          RouterCall(c) =>
            LET amounts == [p \in 1 .. paymentCounter' |-> payments'[p].amount]
                opened == {p \in 1 .. paymentCounter' : p > paymentCounter}
            IN /\ balanceOf[c] - balanceOf'[c] = SumOver(amounts, opened)
               /\ RouterFree' = RouterFree
    ]_vars

\* C39: a payment opened through the Router belongs to the account that
\* called the Router.  A routeAndPay or batchOpenPayments step records the
\* caller as payment.buyer of every payment it opens, so that the caller
\* passes dispute's buyer check and receives any refund.
C39_RouterBuyer ==
    [][\A c \in Buyers :
          RouterCall(c) =>
            \A p \in 1 .. paymentCounter' :
                p > paymentCounter =>
                    /\ payments'[p].buyer = c
                    /\ DisputeErr(c, p)' # "NotBuyer"
    ]_vars

====
